---- MODULE Spec2Model ----
(***************************************************************************)
(* Belief-space roadmap planner (po-rrt): the roadmap builder              *)
(* PRM::grow_graph, the belief-graph lifter PRM::build_belief_graph, the   *)
(* expected-cost solver conditional_dijkstra and the policy extractor      *)
(* extract_policy, as state machines.                                      *)
(*                                                                         *)
(* Nine specifications share the variables:                                *)
(*   SpecPlan      plan_belief_space on a hand-built roadmap (as the test  *)
(*                 test_build_belief_graph builds one): lift, solve,       *)
(*                 extract, and one path_to_leaf query.                    *)
(*   SpecSolveFair the lift and the solver on fewer roadmaps, with weak    *)
(*                 fairness of the solver's loop.                          *)
(*   SpecGrow      grow_graph: the sampling loop and its result.           *)
(*   SpecGrowLong  grow_graph on one line of four cells, for more          *)
(*                 iterations.                                             *)
(*   SpecGrowPlan  grow_graph followed by the lift of its roadmap.         *)
(*   SpecCalls     single calls of transition_probability and steer.       *)
(*   SpecEntry     the entries of plan_belief_space and grow_graph, on     *)
(*                 start beliefs of any length and on a walled start.      *)
(*   SpecTracker   the reachability tracker under any operation sequence.  *)
(*   SpecMap       add_zones on a zone image and one get_zone_status call. *)
(*                                                                         *)
(* Numbers.  A probability is an integer number of 1/ProbDen; a cost or an *)
(* expected cost is an integer number of 1/ProbDen too (a unit edge has    *)
(* cost ProbDen), so that p * x is (p * x) \div ProbDen, which is exact on *)
(* every graph of SpecPlan (ArithExact).  +infinity and NaN are the two    *)
(* negative values INFINITY and NAN, with the IEEE rules in F_add, F_mul,  *)
(* F_lt, F_le.                                                             *)
(***************************************************************************)
EXTENDS Integers, Sequences, FiniteSets, TLC

\* ---------------------------------------------------------------- bounds
MaxCoord == 2      \* configurations are the points 0 .. MaxCoord of a line
MaxPolicy == 6     \* extract_policy is followed up to this many policy nodes
MaxIter == 2       \* n_iter_min and n_iter_max range over 0 .. MaxIter
MaxTracked == 2    \* the tracker is followed up to the node ids 0 .. MaxTracked
MaxZones == 3      \* zone images with the ids below k, k up to MaxZones, are enumerated

\* ------------------------------------------------------------- constants
NWorlds == 2       \* prm.n_worlds of the tests' one-zone map
INFINITY == -1     \* std::f64::INFINITY
U32Bits == 32      \* the width of the u32 in which add_zones computes n_worlds
NAN == INFINITY - 1

Worlds == 0 .. NWorlds - 1
WorldMasks == SUBSET Worlds          \* a WorldMask (BitVec) as the set of its set bits
Coords == 0 .. MaxCoord

\* Option<T>: None is {}, Some(x) is {x}.
None == {}
Some(x) == {x}
Unwrap(o) == CHOOSE x \in o : TRUE

VARIABLES
    pc,                      \* where the planner is
    \* --- PRM fields
    fns,                     \* the PRMFuncs oracle (the map): [observable |-> set of points]
    graph,                   \* PRM.graph.nodes: id -> [state, validity, children]
    final_node_ids,          \* PRM.final_node_ids
    node_to_belief_nodes,    \* PRM.node_to_belief_nodes: roadmap id -> belief id -> Option
    belief_graph,            \* PRM.belief_graph: [nodes, reachable_belief_states]
    expected_costs_to_goals, \* PRM.expected_costs_to_goals
    \* --- conditional_dijkstra locals
    terminals,               \* final_belief_state_node_ids, as passed to the solver
    dist, q,
    relaxed,                 \* history: the nodes whose dist line 116 has written
    \* --- extract_policy locals
    policy,                  \* [nodes: id -> PolicyNode, leafs: Seq(policy id)]
    lifo,                    \* Seq(<<policy node, belief node>>)
    belief_node_of,          \* history: policy node id -> the belief node it was made from
    expanded,                \* history: the policy nodes popped from lifo and expanded
    \* --- grow_graph locals and collaborators
    conservative_reachability, \* PRM.conservative_reachability
    kdtree,                  \* PRM.kdtree: the roadmap ids inserted
    goal, max_step,          \* grow_graph's arguments: goal[w] is the goal point of world w
    it, n_iter_min, n_iter_max,
    result,                  \* what grow_graph returned: "none", "Ok", "Err"
    \* --- the call of a query or of an entry point under examination
    call                     \* [fn, args, ret]: its name, its arguments, Option of its value

vars == << pc, fns, graph, final_node_ids, node_to_belief_nodes, belief_graph,
           expected_costs_to_goals, terminals, dist, q, relaxed, policy, lifo,
           belief_node_of, expanded, conservative_reachability, kdtree, goal, max_step,
           it, n_iter_min, n_iter_max, result, call >>

planVars == << fns, graph, final_node_ids, node_to_belief_nodes, belief_graph,
               expected_costs_to_goals, terminals, dist, q, relaxed, policy, lifo,
               belief_node_of, expanded >>
planOnlyVars == << node_to_belief_nodes, belief_graph, expected_costs_to_goals, terminals,
                   dist, q, relaxed, policy, lifo, belief_node_of, expanded >>
growVars == << conservative_reachability, kdtree, goal, max_step, it, n_iter_min,
               n_iter_max, result >>

\* ------------------------------------------------------------ arithmetic
Abs(x) == IF x < 0 THEN -x ELSE x

IsFinite(x) == x >= 0

F_add(a, b) ==
    IF a = NAN \/ b = NAN THEN NAN
    ELSE IF a = INFINITY \/ b = INFINITY THEN INFINITY
    ELSE a + b

\* belief states: Worlds -> weight, in 1/ProbDen
StartBelief == [w \in Worlds |-> IF w = 0 THEN 4 ELSE 6]

SumOver(f) ==
    LET s[n \in 0 .. NWorlds] == IF n = 0 THEN 0 ELSE s[n - 1] + f[n - 1]
    IN  s[NWorlds]

ProbDen == SumOver(StartBelief)

\* p * x for a probability p (in 1/ProbDen) and a cost x
F_mul(p, x) ==
    IF x = NAN THEN NAN
    ELSE IF x = INFINITY THEN (IF p = 0 THEN NAN ELSE INFINITY)
    ELSE (p * x) \div ProbDen

F_lt(a, b) ==
    IF a = NAN \/ b = NAN THEN FALSE
    ELSE IF a = INFINITY THEN FALSE
    ELSE IF b = INFINITY THEN TRUE
    ELSE a < b

F_le(a, b) ==
    IF a = NAN \/ b = NAN THEN FALSE
    ELSE IF b = INFINITY THEN TRUE
    ELSE IF a = INFINITY THEN FALSE
    ELSE a <= b

\* the cost evaluator of the tests, norm2, on a line
CostEvaluator(a, b) == Abs(b - a) * ProbDen

\* ------------------------------------------------------------ common.rs
\* the zip stops at the shorter of the belief state and the mask
is_compatible(belief_state, validity) ==
    \A w \in Worlds \cap DOMAIN belief_state : belief_state[w] > 0 => w \in validity

\* the belief states the planner is specified for: of sum 1 and one weight per world
BeliefStateIsValid_WithLength(belief_state) ==
    LET s[n \in 0 .. Cardinality(DOMAIN belief_state)] ==
            IF n = 0 THEN 0 ELSE belief_state[n - 1] + s[n - 1]
    IN  s[Cardinality(DOMAIN belief_state)] = ProbDen
           /\ Cardinality(DOMAIN belief_state) = NWorlds

\* norm1 on points of whole coordinates
norm1(a, b) ==
    LET d[n \in 0 .. Len(a)] == IF n = 0 THEN 0 ELSE d[n - 1] + Abs(b[n] - a[n])
    IN  d[Len(a)]

\* a steer that shortens each coordinate on its own
steer_exact_PerCoordinate(from, to, step_max) ==
    [num |-> [i \in DOMAIN to |->
                 IF Abs(to[i] - from[i]) > step_max
                 THEN (IF to[i] > from[i] THEN from[i] + step_max ELSE from[i] - step_max)
                 ELSE to[i]],
     den |-> 1]

\* steer on points of N coordinates, without rounding: the value left in `to`, as
\* numerators over one denominator; lambda = max_step / step, so that
\* from[i] + (to[i] - from[i]) * lambda = (from[i] * step + (to[i] - from[i]) * step_max) / step
steer_exact(from, to, step_max) ==
    LET step == norm1(from, to)
    IN  IF step > step_max
        THEN [num |-> [i \in DOMAIN to |-> from[i] * step + (to[i] - from[i]) * step_max],
              den |-> step]
        ELSE [num |-> to, den |-> 1]

\* the condition of assert_belief_state_validity: the fold of the weights is within
\* 0.000001 of 1; on weights that are whole numbers of 1/ProbDen, the fold is ProbDen
BeliefStateIsValid(belief_state) ==
    LET s[n \in 0 .. Cardinality(DOMAIN belief_state)] ==
            IF n = 0 THEN 0 ELSE belief_state[n - 1] + s[n - 1]
    IN  s[Cardinality(DOMAIN belief_state)] = ProbDen

\* ------------------------------------------------------- belief_graph.rs
\* a fold that tests the parent's weight where the code tests the child's
transition_probability_ParentSupport(parent_bs, child_bs) ==
    LET s[n \in 0 .. NWorlds] ==
            IF n = 0 THEN 0
            ELSE s[n - 1] + (IF parent_bs[n - 1] > 0 THEN parent_bs[n - 1] ELSE 0)
    IN  s[NWorlds]

transition_probability(parent_bs, child_bs) ==
    LET s[n \in 0 .. NWorlds] ==
            IF n = 0 THEN 0
            ELSE s[n - 1] + (IF child_bs[n - 1] > 0 THEN parent_bs[n - 1] ELSE 0)
    IN  s[NWorlds]

\* ------------------------------------------------------ the oracle (fns)
PointBelief(w) == [x \in Worlds |-> IF x = w THEN ProbDen ELSE 0]

\* reachable_belief_states: the start belief, then the belief of each world known
ReachableBeliefStates(start) ==
    LET f[n \in 0 .. NWorlds] ==
            IF n = 0 THEN << start >>
            ELSE IF (n - 1) \in DOMAIN start /\ start[n - 1] > 0 /\ PointBelief(n - 1) # start
                 THEN Append(f[n - 1], PointBelief(n - 1))
                 ELSE f[n - 1]
    IN  f[NWorlds]

\* observe: at an observable point the world becomes known; elsewhere nothing is learnt
Observe(F, state, belief_state) ==
    IF state \in F.observable
    THEN LET f[n \in 0 .. NWorlds] ==
                 IF n = 0 THEN << >>
                 ELSE IF (n - 1) \in DOMAIN belief_state /\ belief_state[n - 1] > 0
                      THEN Append(f[n - 1], PointBelief(n - 1))
                      ELSE f[n - 1]
         IN  f[NWorlds]
    ELSE << belief_state >>

\* --------------------------------------------------------------- prm.rs
NNodes(g) == Cardinality(DOMAIN g)

\* BeliefGraph::belief_id
BeliefIdOf(rbs, belief_state) ==
    CHOOSE k \in 0 .. Len(rbs) - 1 : rbs[k + 1] = belief_state
             /\ \A j \in 0 .. k - 1 : rbs[j + 1] # belief_state

\* pass 1 of build_belief_graph: one belief node per (roadmap node, belief), in
\* this order; the table holds the id only where the belief is compatible
BeliefNodeId(rbs, id, belief_id) == id * Len(rbs) + belief_id

NodeToBeliefNodes(g, rbs) ==
    [id \in DOMAIN g |->
        [belief_id \in 0 .. Len(rbs) - 1 |->
            IF is_compatible(rbs[belief_id + 1], g[id].validity)
            THEN Some(BeliefNodeId(rbs, id, belief_id)) ELSE None]]

\* a pass 2 that installs every observation edge in both directions
ObservationChildren_BothWays(F, g, rbs, id, belief_id) ==
    LET table == NodeToBeliefNodes(g, rbs)
        Forward(k) ==
            {j \in 0 .. Len(rbs) - 1 :
                /\ j # k
                /\ \E n \in 1 .. Len(Observe(F, g[id].state, rbs[k + 1])) :
                      Observe(F, g[id].state, rbs[k + 1])[n] = rbs[j + 1]
                /\ table[id][k] # None /\ table[id][j] # None}
        f[n \in 0 .. Len(rbs)] ==
            IF n = 0 THEN << >>
            ELSE IF (n - 1) \in Forward(belief_id) \/ belief_id \in Forward(n - 1)
                 THEN Append(f[n - 1], BeliefNodeId(rbs, id, n - 1))
                 ELSE f[n - 1]
    IN  f[Len(rbs)]

\* pass 2: the observation edges leaving (id, belief_id), in the order added
ObservationChildren(F, g, rbs, id, belief_id) ==
    LET table == NodeToBeliefNodes(g, rbs)
        children_belief_states == Observe(F, g[id].state, rbs[belief_id + 1])
        parent == table[id][belief_id]
        f[n \in 0 .. Len(children_belief_states)] ==
            IF n = 0 THEN << >>
            ELSE LET child_bs == children_belief_states[n]
                     child == table[id][BeliefIdOf(rbs, child_bs)]
                 IN  IF child_bs # rbs[belief_id + 1] /\ parent # None /\ child # None
                     THEN Append(f[n - 1], Unwrap(child))
                     ELSE f[n - 1]
    IN  f[Len(children_belief_states)]

\* a pass 3 without the continue of line 206: Observation nodes get action edges too
ActionChildren_NoSkip(F, g, rbs, id, belief_id) ==
    LET table == NodeToBeliefNodes(g, rbs)
        parent == table[id][belief_id]
        edges == g[id].children
        f[n \in 0 .. Len(edges)] ==
            IF n = 0 THEN << >>
            ELSE LET child == table[edges[n].id][belief_id]
                 IN  IF parent # None /\ child # None
                        /\ is_compatible(rbs[belief_id + 1], edges[n].validity)
                     THEN Append(f[n - 1], Unwrap(child))
                     ELSE f[n - 1]
    IN  f[Len(edges)]

\* a pass 3 without the compatibility test of line 213 on the edge's mask
ActionChildren_NoMaskTest(F, g, rbs, id, belief_id) ==
    LET table == NodeToBeliefNodes(g, rbs)
        parent == table[id][belief_id]
        edges == g[id].children
        f[n \in 0 .. Len(edges)] ==
            IF n = 0 THEN << >>
            ELSE LET child == table[edges[n].id][belief_id]
                 IN  IF parent # None /\ child # None
                     THEN Append(f[n - 1], Unwrap(child))
                     ELSE f[n - 1]
    IN  IF parent # None /\ ObservationChildren(F, g, rbs, id, belief_id) # << >>
        THEN << >>
        ELSE f[Len(edges)]

\* pass 3: the action edges leaving (id, belief_id), in the order added
ActionChildren(F, g, rbs, id, belief_id) ==
    LET table == NodeToBeliefNodes(g, rbs)
        parent == table[id][belief_id]
        edges == g[id].children
        f[n \in 0 .. Len(edges)] ==
            IF n = 0 THEN << >>
            ELSE LET child == table[edges[n].id][belief_id]
                 IN  IF parent # None /\ child # None
                        /\ is_compatible(rbs[belief_id + 1], edges[n].validity)
                     THEN Append(f[n - 1], Unwrap(child))
                     ELSE f[n - 1]
    IN  IF parent # None /\ ObservationChildren(F, g, rbs, id, belief_id) # << >>
        THEN << >>      \* the node is already an Observation node: continue
        ELSE f[Len(edges)]

BeliefChildren(F, g, rbs, id, belief_id) ==
    ObservationChildren(F, g, rbs, id, belief_id) \o ActionChildren(F, g, rbs, id, belief_id)

\* a lifter whose second pass installs its edges without setting the kind
BeliefNodeType_ObservationUnset(F, g, rbs, id, belief_id) ==
    IF ActionChildren(F, g, rbs, id, belief_id) # << >> THEN "Action" ELSE "Unknown"

BeliefNodeType(F, g, rbs, id, belief_id) ==
    IF ActionChildren(F, g, rbs, id, belief_id) # << >> THEN "Action"
    ELSE IF ObservationChildren(F, g, rbs, id, belief_id) # << >> THEN "Observation"
    ELSE "Unknown"

\* how many times c occurs in the sequence s
Count(s, c) == Cardinality({n \in 1 .. Len(s) : s[n] = c})

Repeat(x, n) == [k \in 1 .. n |-> x]

\* the parents list of belief node c: add_edge pushes in the order of the passes,
\* pass 2 before pass 3, each by roadmap node, then belief
BeliefParents(F, g, rbs, c) ==
    LET nb == Len(rbs)
        total == NNodes(g) * nb
        pass2[n \in 0 .. total] ==
            IF n = 0 THEN << >>
            ELSE pass2[n - 1] \o
                 Repeat(n - 1, Count(ObservationChildren(F, g, rbs, (n - 1) \div nb, (n - 1) % nb), c))
        pass3[n \in 0 .. total] ==
            IF n = 0 THEN << >>
            ELSE pass3[n - 1] \o
                 Repeat(n - 1, Count(ActionChildren(F, g, rbs, (n - 1) \div nb, (n - 1) % nb), c))
    IN  pass2[total] \o pass3[total]

build_belief_graph(F, g, start_belief_state) ==
    LET rbs == ReachableBeliefStates(start_belief_state)
        nb == Len(rbs)
    IN  [ reachable_belief_states |-> rbs,
          nodes |-> [c \in 0 .. NNodes(g) * nb - 1 |->
                        [ state |-> g[c \div nb].state,
                          belief_state |-> rbs[(c % nb) + 1],
                          belief_id |-> c % nb,
                          parents |-> BeliefParents(F, g, rbs, c),
                          children |-> BeliefChildren(F, g, rbs, c \div nb, c % nb),
                          node_type |-> BeliefNodeType(F, g, rbs, c \div nb, c % nb) ] ] ]

\* ------------------------------------- belief_graph.rs: conditional_dijkstra
\* the queue is a set of <<item, priority>>, one entry per item
Push(queue, id, prio) == {e \in queue : e[1] # id} \cup {<< id, prio >>}

\* pop() gives an entry no other entry is strictly below (Priority's order is reversed)
Poppable(queue) == {e \in queue : \A o \in queue : ~F_lt(o[2], e[2])}

\* a candidate that takes the popped child alone, whatever the kind of u_id
Alternative_PoppedChildOnly(G, u_id, v_id, d) ==
    F_add(CostEvaluator(G.nodes[u_id].state, G.nodes[v_id].state), d[v_id])

\* the candidate of predecessor u_id of the popped v_id, lines 93-113
Alternative(G, u_id, v_id, d) ==
    LET u == G.nodes[u_id]
    IN  IF u.node_type = "Action"
        THEN F_add(0, F_add(CostEvaluator(u.state, G.nodes[v_id].state), d[v_id]))
        ELSE LET f[n \in 0 .. Len(u.children)] ==
                     IF n = 0 THEN 0
                     ELSE LET vv_id == u.children[n]
                              p == transition_probability(u.belief_state, G.nodes[vv_id].belief_state)
                          IN  F_add(f[n - 1],
                                    F_mul(p, F_add(CostEvaluator(u.state, G.nodes[vv_id].state), d[vv_id])))
             IN  f[Len(u.children)]

\* a test that also takes a candidate equal to the old value
Improves_OrEqual(alternative, old) == F_le(alternative, old)

\* whether line 115 takes the candidate
Improves(alternative, old) == F_lt(alternative, old)

\* the for loop over the parents of v_id from the n-th on, lines 90-119
RECURSIVE RelaxParents(_, _, _, _)
RelaxParents(G, v_id, n, st) ==
    IF n > Len(G.nodes[v_id].parents) THEN st
    ELSE LET u_id == G.nodes[v_id].parents[n]
         IN  IF G.nodes[u_id].node_type = "Unknown"
             THEN [st EXCEPT !.panic = TRUE]
             ELSE LET alternative == Alternative(G, u_id, v_id, st.dist)
                  IN  IF Improves(alternative, st.dist[u_id])
                      THEN RelaxParents(G, v_id, n + 1,
                               [st EXCEPT !.dist[u_id] = alternative,
                                          !.q = Push(st.q, u_id, alternative),
                                          !.relaxed = @ \cup {u_id}])
                      ELSE RelaxParents(G, v_id, n + 1, st)

\* compute_expected_costs_to_goals, lines 230-237: the belief nodes of the final nodes
FinalBeliefStateNodeIds(finals, table) ==
    LET nb == IF Len(finals) = 0 THEN 0 ELSE Cardinality(DOMAIN table[finals[1]])
        f[n \in 0 .. Len(finals) * nb] ==
            IF n = 0 THEN << >>
            ELSE LET o == table[finals[((n - 1) \div nb) + 1]][(n - 1) % nb]
                 IN  IF o # None THEN Append(f[n - 1], Unwrap(o)) ELSE f[n - 1]
    IN  f[Len(finals) * nb]

SeqRange(s) == {s[n] : n \in 1 .. Len(s)}

\* an initialisation without line 75
InitialDist_NoZero(G, ids) == [c \in DOMAIN G.nodes |-> INFINITY]

\* lines 67 and 74-75: every dist is +infinity, but 0 for the final ids
InitialDist(G, ids) ==
    [c \in DOMAIN G.nodes |-> IF c \in SeqRange(ids) THEN 0 ELSE INFINITY]

\* ------------------------------------------ belief_graph.rs: extract_policy
\* the children of belief node u whose belief id is k, in children order
GroupOf(G, u, k) == SelectSeq(G.nodes[u].children, LAMBDA c : G.nodes[c].belief_id = k)

\* a selection that lets a later child of equal p * cost replace the best so far
BestOfGroup_LastSeen(G, u, costs, group) ==
    LET first == group[1]
        p == transition_probability(G.nodes[u].belief_state, G.nodes[first].belief_state)
        f[n \in 0 .. Len(group)] ==
            IF n = 0 THEN [best_id |-> first, best_cost |-> F_mul(p, costs[first])]
            ELSE IF F_le(F_mul(p, costs[group[n]]), f[n - 1].best_cost)
                 THEN [best_id |-> group[n], best_cost |-> F_mul(p, costs[group[n]])]
                 ELSE f[n - 1]
    IN  [best_id |-> f[Len(group)].best_id, p |-> p]

\* lines 203-214: the first child of the group with the least p * cost
BestOfGroup(G, u, costs, group) ==
    LET first == group[1]
        p == transition_probability(G.nodes[u].belief_state, G.nodes[first].belief_state)
        f[n \in 0 .. Len(group)] ==
            IF n = 0 THEN [best_id |-> first, best_cost |-> F_mul(p, costs[first])]
            ELSE IF F_lt(F_mul(p, costs[group[n]]), f[n - 1].best_cost)
                 THEN [best_id |-> group[n], best_cost |-> F_mul(p, costs[group[n]])]
                 ELSE f[n - 1]
    IN  [best_id |-> f[Len(group)].best_id, p |-> p]

\* get_best_expected_children: the best child of each belief id, by ascending belief
\* id (the BTreeMap's key order); panic tells which assertion failed, if one did
get_best_expected_children(G, u, costs) ==
    LET nb == Len(G.reachable_belief_states)
        f[n \in 0 .. nb] ==
            IF n = 0 THEN [panic |-> "", best_children |-> << >>]
            ELSE IF f[n - 1].panic # "" \/ GroupOf(G, u, n - 1) = << >> THEN f[n - 1]
            ELSE LET b == BestOfGroup(G, u, costs, GroupOf(G, u, n - 1))
                 IN  IF ~(b.p > 0)
                     THEN [f[n - 1] EXCEPT !.panic = "panic_p"]
                     ELSE IF ~F_le(F_mul(b.p, costs[b.best_id]), costs[u])
                     THEN [f[n - 1] EXCEPT !.panic = "panic_best_cost"]
                     ELSE [f[n - 1] EXCEPT !.best_children = Append(@, b.best_id)]
    IN  f[nb]

\* Policy::add_node and Policy::add_edge
Policy_add_node(pol, state, belief_state, is_leaf) ==
    LET id == NNodes(pol.nodes)
    IN  [ nodes |-> [n \in 0 .. id |->
                        IF n < id THEN pol.nodes[n]
                        ELSE [ state |-> state, belief_state |-> belief_state,
                               parent |-> None, children |-> << >>, is_leaf |-> is_leaf ]],
          leafs |-> IF is_leaf THEN Append(pol.leafs, id) ELSE pol.leafs ]

\* an add_edge that forgets the child's parent link
Policy_add_edge_NoParent(pol, parent_id, child_id) ==
    [pol EXCEPT !.nodes[parent_id].children = Append(@, child_id)]

Policy_add_edge(pol, parent_id, child_id) ==
    [pol EXCEPT !.nodes[parent_id].children = Append(@, child_id),
                !.nodes[child_id].parent = Some(parent_id)]

\* Policy::leaf(i): the i-th recorded leaf
Policy_leaf(pol, i) == pol.nodes[pol.leafs[i + 1]]

\* the configurations met from the root down to node id, following parent links
\* upwards from id and reversing
RECURSIVE Policy_path_to_node(_, _)
Policy_path_to_node(pol, id) ==
    IF pol.nodes[id].parent = None THEN << pol.nodes[id].state >>
    ELSE Append(Policy_path_to_node(pol, Unwrap(pol.nodes[id].parent)), pol.nodes[id].state)

\* Policy::path_to_leaf(i): root-to-leaf sequence of configurations
Policy_path_to_leaf(pol, i) == Policy_path_to_node(pol, pol.leafs[i + 1])

\* line 175
IsLeaf(costs, child_id) == costs[child_id] = 0

\* a push that does not look at is_leaf
Descend_Always(is_leaf) == TRUE

\* line 181: whether the child is pushed on lifo
Descend(is_leaf) == ~is_leaf

\* the for loop over children_ids, lines 173-184
RECURSIVE AddChildren(_, _, _, _, _, _)
AddChildren(G, costs, policy_node_id, children_ids, n, st) ==
    IF n > Len(children_ids) THEN st
    ELSE LET child_id == children_ids[n]
             is_leaf == IsLeaf(costs, child_id)
             child_policy_id == NNodes(st.policy.nodes)
             added == Policy_add_edge(
                          Policy_add_node(st.policy, G.nodes[child_id].state,
                                          G.nodes[child_id].belief_state, is_leaf),
                          policy_node_id, child_policy_id)
         IN  AddChildren(G, costs, policy_node_id, children_ids, n + 1,
                 [ policy |-> added,
                   lifo |-> IF Descend(is_leaf)
                            THEN Append(st.lifo, << child_policy_id, child_id >>)
                            ELSE st.lifo,
                   belief_node_of |-> Append(st.belief_node_of, child_id) ])

\* ------------------------------------------------- the reachability tracker
\* Reachability: per node its validity and its reachability, and the final nodes
\* with their goal masks
Reachability_new ==
    [validity |-> << >>, reachability |-> << >>, final_node_ids |-> << >>, finality |-> << >>]

\* f with x appended, f a function on 0 .. n-1
Push0(f, x) == [k \in 0 .. NNodes(f) |-> IF k < NNodes(f) THEN f[k] ELSE x]

\* set_root(mask): reachability = validity = mask
Reachability_set_root(r, mask) ==
    [r EXCEPT !.validity = Push0(<< >>, mask), !.reachability = Push0(<< >>, mask)]

\* add_node(mask): that validity and zero reachability
Reachability_add_node(r, mask) ==
    [r EXCEPT !.validity = Push0(@, mask), !.reachability = Push0(@, {})]

\* an update that leaves out the validity of the target
Reachability_add_edge_Unmasked(r, from, to) ==
    [r EXCEPT !.reachability[to] = @ \cup r.reachability[from]]

\* an update that overwrites instead of or-ing
Reachability_add_edge_Overwrite(r, from, to) ==
    [r EXCEPT !.reachability[to] = r.reachability[from] \cap r.validity[to]]

\* add_edge(from, to): reachability[to] |= reachability[from] & validity[to]
Reachability_add_edge(r, from, to) ==
    [r EXCEPT !.reachability[to] = @ \cup (r.reachability[from] \cap r.validity[to])]

\* add_final_node(id, finality): records id as terminal with that goal mask
Reachability_add_final_node(r, id, finality) ==
    [r EXCEPT !.final_node_ids = Append(@, id), !.finality = Append(@, finality)]

\* is_final_set_complete(): the OR over the final nodes of their reachability is all ones
is_final_set_complete(r) ==
    UNION {r.reachability[r.final_node_ids[n]] : n \in 1 .. Len(r.final_node_ids)} = Worlds

\* ------------------------------------------------------- the roadmap graph
\* PRMGraph::add_node and PRMGraph::add_edge
PRMGraph_add_node(g, state, validity) ==
    Push0(g, [state |-> state, validity |-> validity, children |-> << >>])

PRMGraph_add_edge(g, from, to, validity) ==
    [g EXCEPT ![from].children = Append(@, [id |-> to, validity |-> validity])]

\* ------------------------------------------------------------ the kd-tree
\* nearest_neighbor_filtered: the inserted ids among those passing the filter that
\* no other is nearer to state than (what a tie gives is not fixed)
nearest_neighbor_filtered(tree, g, state, passing) ==
    {id \in tree \cap passing :
        \A o \in tree \cap passing : Abs(g[id].state - state) <= Abs(g[o].state - state)}

\* nearest_neighbors: the inserted ids within radius of state, in insertion order
RECURSIVE SetToAscendingSeq(_)
SetToAscendingSeq(S) ==
    IF S = {} THEN << >>
    ELSE LET least == CHOOSE x \in S : \A y \in S : x <= y
         IN  << least >> \o SetToAscendingSeq(S \ {least})

nearest_neighbors(tree, g, state, radius) ==
    SetToAscendingSeq({id \in tree : Abs(g[id].state - state) <= radius})

\* ------------------------------------------------------------- the oracles
\* the one-zone map: a cell is "free", "obstacle" or "zone"; get_zone_status: the
\* zone is open in the worlds whose bit 0 is set
zone_index_to_world_mask == {world \in Worlds : world % 2 # 0}

\* PRMFuncs::state_validity
state_validity(F, state) ==
    CASE F.cells[state] = "zone" -> Some(zone_index_to_world_mask)
      [] F.cells[state] = "free" -> Some(Worlds)
      [] OTHER -> None

\* a segment without its two ends
Traversed_Interior(a, b) == {c \in (IF a <= b THEN a .. b ELSE b .. a) : c # a /\ c # b}

\* the cells on the segment from a to b, ends included
Traversed(a, b) == IF a <= b THEN a .. b ELSE b .. a

\* PRMFuncs::transition_validator: infeasible across an obstacle or when the ends share
\* no world, else the worlds in which the traversed space is open
transition_validator(F, from, to) ==
    LET open == {w \in Worlds : \A c \in Traversed(from.state, to.state) :
                     F.cells[c] = "free" \/ (F.cells[c] = "zone" /\ w \in zone_index_to_world_mask)}
    IN  IF \E c \in Traversed(from.state, to.state) : F.cells[c] = "obstacle" THEN None
        ELSE IF from.validity \cap to.validity = {} THEN None
        ELSE Some(open)

\* the goal predicate: the worlds whose goal point state is
Goal(g, state) == {w \in Worlds : g[w] = state}

\* common.rs steer, on a line with whole coordinates
steer(from, to, step_max) ==
    IF Abs(to - from) > step_max
    THEN from + ((to - from) * step_max) \div Abs(to - from)
    ELSE to

\* --------------------------------------------------- the hand-built roadmap
\* test_build_belief_graph's "mock graph growth": add_node for each node, then
\* add_bi_edge for the pairs a < b in order, then final_node_ids.push
Loc == {0, 1, 2}
NLoc == Cardinality(Loc)
Pairs == {e \in Loc \X Loc : e[1] < e[2]}

\* the start and node 1 are in free space; node 2 may lie in the zone, open in world 1
ValidityChoices(l) == IF l = 2 THEN {Worlds, {1}} ELSE {Worlds}

\* an edge is absent, or valid wherever both ends are, or crosses the zone; the
\* edge 0-1 never crosses it
EdgeChoices(val, e) ==
    {None, Some(val[e[1]] \cap val[e[2]])}
        \cup (IF e = << 0, 1 >> THEN {} ELSE {Some({1} \cap val[e[1]] \cap val[e[2]])})

\* final_node_ids.push: no final node, one, or the two that are not the start
FinalChoices == {<< >>, << 0 >>, << 1 >>, << 2 >>, << 1, 2 >>}

\* the children list add_bi_edge leaves on node l: its neighbours, ascending
MockChildren(l, em) ==
    LET f[n \in 0 .. NLoc] ==
            IF n = 0 THEN << >>
            ELSE LET m == n - 1
                     e == IF m < l THEN em[<< m, l >>]
                          ELSE IF l < m THEN em[<< l, m >>] ELSE None
                 IN  IF e # None
                     THEN Append(f[n - 1], [id |-> m, validity |-> Unwrap(e)])
                     ELSE f[n - 1]
    IN  f[NLoc]

MockGraph(pos, val, em) ==
    [l \in Loc |-> [state |-> pos[l], validity |-> val[l], children |-> MockChildren(l, em)]]

EmptyPolicy == [nodes |-> << >>, leafs |-> << >>]

\* no call is under examination
NoCall == [fn |-> "none", args |-> << >>, ret |-> None]

GrowIdle ==
    /\ conservative_reachability = Reachability_new
    /\ kdtree = {}
    /\ goal = << >>
    /\ max_step = 0
    /\ it = 0
    /\ n_iter_min = 0
    /\ n_iter_max = 0
    /\ result = "none"

InitPlan ==
    /\ pc = "build"
    /\ fns \in {[observable |-> S, cells |-> [c \in Coords |-> "free"]] :
                   S \in {{}} \cup {{c} : c \in Coords}}
    /\ \E pos \in [Loc -> Coords], val \in [Loc -> WorldMasks] :
          /\ pos[0] = 0
          /\ \A l \in Loc : val[l] \in ValidityChoices(l)
          /\ \E em \in [Pairs -> {None} \cup {Some(m) : m \in WorldMasks}] :
                /\ \A e \in Pairs : em[e] \in EdgeChoices(val, e)
                /\ graph = MockGraph(pos, val, em)
    /\ final_node_ids \in FinalChoices
    /\ node_to_belief_nodes = << >>
    /\ belief_graph = [nodes |-> << >>, reachable_belief_states |-> << >>]
    /\ expected_costs_to_goals = << >>
    /\ terminals = << >>
    /\ dist = << >>
    /\ q = {}
    /\ relaxed = {}
    /\ policy = EmptyPolicy
    /\ lifo = << >>
    /\ belief_node_of = << >>
    /\ expanded = {}
    /\ GrowIdle
    /\ call = NoCall

\* ------------------------------------------------- plan_belief_space, by step
\* build_belief_graph, prm.rs 160-226
BuildBeliefGraph ==
    /\ pc = "build"
    /\ belief_graph' = build_belief_graph(fns, graph, StartBelief)
    /\ node_to_belief_nodes' = NodeToBeliefNodes(graph, ReachableBeliefStates(StartBelief))
    /\ pc' = "costs"
    /\ UNCHANGED << fns, graph, final_node_ids, expected_costs_to_goals, terminals, dist,
                    q, relaxed, policy, lifo, belief_node_of, expanded >>
    /\ UNCHANGED growVars
    /\ UNCHANGED call

\* compute_expected_costs_to_goals up to the solver's loop: prm.rs 230-237 and
\* belief_graph.rs 67-77
DijkstraInit ==
    /\ pc = "costs"
    /\ LET ids == FinalBeliefStateNodeIds(final_node_ids, node_to_belief_nodes)
       IN  /\ terminals' = ids
           /\ dist' = InitialDist(belief_graph, ids)
           /\ q' = {<< c, 0 >> : c \in SeqRange(ids)}
    /\ relaxed' = {}
    /\ pc' = "dijkstra"
    /\ UNCHANGED << fns, graph, final_node_ids, node_to_belief_nodes, belief_graph,
                    expected_costs_to_goals, policy, lifo, belief_node_of, expanded >>
    /\ UNCHANGED growVars
    /\ UNCHANGED call

\* one iteration of the while loop, belief_graph.rs 80-120
DijkstraStep ==
    /\ pc = "dijkstra"
    /\ \E e \in Poppable(q) :
          \E st \in {RelaxParents(belief_graph, e[1], 1,
                        [dist |-> dist, q |-> q \ {e}, relaxed |-> relaxed, panic |-> FALSE])} :
              /\ dist' = st.dist
              /\ q' = st.q
              /\ relaxed' = st.relaxed
              /\ pc' = IF st.panic THEN "panic_node_type" ELSE "dijkstra"
    /\ UNCHANGED << fns, graph, final_node_ids, node_to_belief_nodes, belief_graph,
                    expected_costs_to_goals, terminals, policy, lifo, belief_node_of,
                    expanded >>
    /\ UNCHANGED growVars
    /\ UNCHANGED call

\* the queue is empty: the solver returns dist, prm.rs 240
DijkstraReturn ==
    /\ pc = "dijkstra"
    /\ q = {}
    /\ expected_costs_to_goals' = dist
    /\ pc' = "extract_init"
    /\ UNCHANGED << fns, graph, final_node_ids, node_to_belief_nodes, belief_graph,
                    terminals, dist, q, relaxed, policy, lifo, belief_node_of, expanded >>
    /\ UNCHANGED growVars
    /\ UNCHANGED call

\* extract_policy up to its loop, belief_graph.rs 157-166
ExtractInit ==
    /\ pc = "extract_init"
    /\ IF NNodes(belief_graph.nodes) = 0
       THEN /\ pc' = "panic_no_graph"
            /\ UNCHANGED << policy, lifo, belief_node_of >>
       ELSE /\ policy' = Policy_add_node(EmptyPolicy, belief_graph.nodes[0].state,
                                         belief_graph.nodes[0].belief_state, FALSE)
            /\ lifo' = << << 0, 0 >> >>
            /\ belief_node_of' = << 0 >>
            /\ pc' = "extract"
    /\ UNCHANGED << fns, graph, final_node_ids, node_to_belief_nodes, belief_graph,
                    expected_costs_to_goals, terminals, dist, q, relaxed, expanded >>
    /\ UNCHANGED growVars
    /\ UNCHANGED call

\* one iteration of the while loop, belief_graph.rs 168-185
ExtractStep ==
    /\ pc = "extract"
    /\ lifo # << >>
    /\ NNodes(policy.nodes) < MaxPolicy
    /\ \E top \in {lifo[Len(lifo)]} :
       \E best \in {get_best_expected_children(belief_graph, top[2], expected_costs_to_goals)} :
          IF best.panic # ""
          THEN /\ pc' = best.panic
               /\ lifo' = SubSeq(lifo, 1, Len(lifo) - 1)
               /\ UNCHANGED << policy, belief_node_of, expanded >>
          ELSE \E st \in {AddChildren(belief_graph, expected_costs_to_goals, top[1],
                              best.best_children, 1,
                              [ policy |-> policy, lifo |-> SubSeq(lifo, 1, Len(lifo) - 1),
                                belief_node_of |-> belief_node_of ])} :
                  /\ policy' = st.policy
                  /\ lifo' = st.lifo
                  /\ belief_node_of' = st.belief_node_of
                  /\ expanded' = expanded \cup {top[1]}
                  /\ pc' = "extract"
    /\ UNCHANGED << fns, graph, final_node_ids, node_to_belief_nodes, belief_graph,
                    expected_costs_to_goals, terminals, dist, q, relaxed >>
    /\ UNCHANGED growVars
    /\ UNCHANGED call

\* lifo is empty: extract_policy returns the policy
ExtractReturn ==
    /\ pc = "extract"
    /\ lifo = << >>
    /\ pc' = "done"
    /\ UNCHANGED planVars
    /\ UNCHANGED growVars
    /\ UNCHANGED call

\* a consumer asks the returned policy for the path to one of its leaves, as the
\* tests do (belief_graph.rs 493-494)
PathToLeaf ==
    /\ pc = "done"
    /\ \E i \in 0 .. Len(policy.leafs) - 1 :
          call' = [fn |-> "path_to_leaf", args |-> << i >>,
                   ret |-> Some(Policy_path_to_leaf(policy, i))]
    /\ pc' = "queried"
    /\ UNCHANGED planVars
    /\ UNCHANGED growVars

NextPlan ==
    \/ PathToLeaf
    \/ BuildBeliefGraph
    \/ DijkstraInit
    \/ DijkstraStep
    \/ DijkstraReturn
    \/ ExtractInit
    \/ ExtractStep
    \/ ExtractReturn

SpecPlan == InitPlan /\ [][NextPlan]_vars

\* ------------------------------------------ the solver, run to its end
\* build_belief_graph and conditional_dijkstra on the roadmaps of SpecPlan whose nodes
\* stand at three points, or with nodes 1 and 2 at one point (edges of cost zero)
SolvePositions == {[l \in Loc |-> l], [l \in Loc |-> IF l = 0 THEN 0 ELSE 1]}

InitSolve ==
    /\ InitPlan
    /\ \E pos \in SolvePositions : \A l \in Loc : graph[l].state = pos[l]
    /\ fns.observable \in {{}, {1}}
    /\ final_node_ids \in {<< 0 >>, << 2 >>, << 1, 2 >>}

NextSolve ==
    \/ BuildBeliefGraph
    \/ DijkstraInit
    \/ DijkstraStep
    \/ DijkstraReturn

\* the call is one sequential computation: a step that can be taken is taken
SpecSolveFair == InitSolve /\ [][NextSolve]_vars /\ WF_vars(NextSolve)

\* p * x is computed without rounding wherever the solver and the extractor multiply
ArithExact ==
    pc \notin {"build", "costs"} =>
        \A c \in DOMAIN belief_graph.nodes :
            belief_graph.nodes[c].belief_id # 0 /\ IsFinite(dist[c]) => dist[c] % ProbDen = 0

\* ------------------------------------------------------ grow_graph, by step
\* the loop condition, prm.rs 59
LoopCondition(i, n_min, n_max, complete) == i < n_min \/ (~complete /\ i < n_max)

\* prm.rs 129-135: the value returned, and what becomes of final_node_ids
ResultOf(complete) == IF complete THEN "Ok" ELSE "Err"

\* an assignment of final_node_ids on both arms of the match
FinalNodeIdsAtReturn_Always(complete, old, recorded) == recorded

FinalNodeIdsAtReturn(complete, old, recorded) == IF complete THEN recorded ELSE old

\* prm.rs 93-103: the neighbours the transition validator approves, with their masks
ApprovedEdges(F, g, neighbour_ids, new_node_id) ==
    LET all == [n \in 1 .. Len(neighbour_ids) |->
                   [id |-> neighbour_ids[n],
                    validity |-> transition_validator(F, g[neighbour_ids[n]], g[new_node_id])]]
    IN  SelectSeq(all, LAMBDA e : e.validity # None)

\* prm.rs 106-109: connect the neighbours to the new node, from the n-th edge on
RECURSIVE ConnectForward(_, _, _, _)
ConnectForward(edges, new_node_id, n, st) ==
    IF n > Len(edges) THEN st
    ELSE ConnectForward(edges, new_node_id, n + 1,
             [ graph |-> PRMGraph_add_edge(st.graph, edges[n].id, new_node_id, Unwrap(edges[n].validity)),
               reach |-> Reachability_add_edge(st.reach, edges[n].id, new_node_id) ])

\* a loop that installs nothing
ConnectBackward_Nothing(edges, new_node_id, n, st) == st

\* prm.rs 112-115: connect the new node to the neighbours, from the n-th edge on
RECURSIVE ConnectBackward(_, _, _, _)
ConnectBackward(edges, new_node_id, n, st) ==
    IF n > Len(edges) THEN st
    ELSE ConnectBackward(edges, new_node_id, n + 1,
             [ graph |-> PRMGraph_add_edge(st.graph, new_node_id, edges[n].id, Unwrap(edges[n].validity)),
               reach |-> Reachability_add_edge(st.reach, new_node_id, edges[n].id) ])

\* an iteration that puts the new node in the spatial index before the radius query
AddAndConnect_IndexedFirst(F, g, r, tree, gl, kd_from, new_state, validity, radius) ==
    LET new_node_id == NNodes(g)
        g1 == PRMGraph_add_node(g, new_state, validity)
        r1 == Reachability_add_node(r, validity)
        within == nearest_neighbors(tree \cup {new_node_id}, g1, new_state, radius)
        neighbour_ids == IF within = << >> THEN << kd_from >> ELSE within
        fwd_edges == ApprovedEdges(F, g1, neighbour_ids, new_node_id)
        bwd_edges == ApprovedEdges(F, g1, neighbour_ids, new_node_id)
        connected == ConnectBackward(bwd_edges, new_node_id, 1,
                         ConnectForward(fwd_edges, new_node_id, 1, [graph |-> g1, reach |-> r1]))
        finality == Goal(gl, new_state)
    IN  [ graph |-> connected.graph,
          reach |-> IF finality # {}
                    THEN Reachability_add_final_node(connected.reach, new_node_id, finality)
                    ELSE connected.reach,
          kdtree |-> tree \cup {new_node_id} ]

\* prm.rs 72-123: the new node is added, connected, recorded if final, and indexed
AddAndConnect(F, g, r, tree, gl, kd_from, new_state, validity, radius) ==
    LET new_node_id == NNodes(g)
        g1 == PRMGraph_add_node(g, new_state, validity)
        r1 == Reachability_add_node(r, validity)
        within == nearest_neighbors(tree, g1, new_state, radius)
        neighbour_ids == IF within = << >> THEN << kd_from >> ELSE within
        fwd_edges == ApprovedEdges(F, g1, neighbour_ids, new_node_id)
        bwd_edges == ApprovedEdges(F, g1, neighbour_ids, new_node_id)
        connected == ConnectBackward(bwd_edges, new_node_id, 1,
                         ConnectForward(fwd_edges, new_node_id, 1, [graph |-> g1, reach |-> r1]))
        finality == Goal(gl, new_state)
    IN  [ graph |-> connected.graph,
          reach |-> IF finality # {}
                    THEN Reachability_add_final_node(connected.reach, new_node_id, finality)
                    ELSE connected.reach,
          kdtree |-> tree \cup {new_node_id} ]

\* the maps: free space with at most one cell of zone and at most one cell of wall;
\* the start is never in the wall
Maps ==
    {m \in [Coords -> {"free", "zone", "obstacle"}] :
        /\ m[0] # "obstacle"
        /\ Cardinality({c \in Coords : m[c] = "zone"}) <= 1
        /\ Cardinality({c \in Coords : m[c] = "obstacle"}) <= 1}

\* the goals: one goal point for every world, or the nearest point in world 0 and the
\* farthest in world 1; the start is no goal
GoalChoices ==
    {[w \in Worlds |-> g] : g \in Coords \ {0}}
        \cup {[w \in Worlds |-> IF w = 0 THEN 1 ELSE MaxCoord]}

InitGrow ==
    /\ pc = "grow_start"
    /\ fns \in {[observable |-> {}, cells |-> m] : m \in Maps}
    /\ goal \in GoalChoices
    /\ max_step \in {1, 2}
    /\ n_iter_min \in 0 .. MaxIter
    /\ n_iter_max \in 0 .. MaxIter
    /\ graph = << >>
    /\ final_node_ids = << >>
    /\ conservative_reachability = Reachability_new
    /\ kdtree = {}
    /\ it = 0
    /\ result = "none"
    /\ node_to_belief_nodes = << >>
    /\ belief_graph = [nodes |-> << >>, reachable_belief_states |-> << >>]
    /\ expected_costs_to_goals = << >>
    /\ terminals = << >>
    /\ dist = << >>
    /\ q = {}
    /\ relaxed = {}
    /\ policy = EmptyPolicy
    /\ lifo = << >>
    /\ belief_node_of = << >>
    /\ expanded = {}
    /\ call = NoCall

\* prm.rs 52-58: the root, with start the point 0; expect() panics on None
GrowStart ==
    /\ pc = "grow_start"
    /\ IF state_validity(fns, 0) = None
       THEN /\ pc' = "panic_start"
            /\ UNCHANGED << graph, conservative_reachability, kdtree, it >>
       ELSE /\ LET root_validity == Unwrap(state_validity(fns, 0))
               IN  /\ graph' = PRMGraph_add_node(graph, 0, root_validity)
                   /\ conservative_reachability' =
                          Reachability_set_root(conservative_reachability, root_validity)
            /\ kdtree' = {0}
            /\ it' = 0
            /\ pc' = "grow_loop"
    /\ UNCHANGED << fns, final_node_ids, goal, max_step, n_iter_min, n_iter_max, result >>
    /\ UNCHANGED planOnlyVars
    /\ UNCHANGED call

\* one iteration of the while loop, prm.rs 59-125
GrowIterate ==
    /\ pc = "grow_loop"
    /\ LoopCondition(it, n_iter_min, n_iter_max, is_final_set_complete(conservative_reachability))
    /\ it' = it + 1
    /\ \E sampled \in DOMAIN fns.cells, world \in Worlds :
          LET from == nearest_neighbor_filtered(kdtree, graph, sampled,
                          {id \in DOMAIN graph :
                              world \in conservative_reachability.reachability[id]})
          IN  IF from = {}
              THEN UNCHANGED << graph, conservative_reachability, kdtree >>
              ELSE \E kd_from \in from :
                      LET new_state == steer(graph[kd_from].state, sampled, max_step)
                          validity == state_validity(fns, new_state)
                      IN  IF validity = None
                          THEN UNCHANGED << graph, conservative_reachability, kdtree >>
                          ELSE \E radius \in 0 .. max_step :
                                  \E st \in {AddAndConnect(fns, graph, conservative_reachability,
                                                 kdtree, goal, kd_from, new_state,
                                                 Unwrap(validity), radius)} :
                                      /\ graph' = st.graph
                                      /\ conservative_reachability' = st.reach
                                      /\ kdtree' = st.kdtree
    /\ UNCHANGED << pc, fns, final_node_ids, goal, max_step, n_iter_min, n_iter_max, result >>
    /\ UNCHANGED planOnlyVars
    /\ UNCHANGED call

\* the loop is left: prm.rs 127-135
GrowReturn ==
    /\ pc = "grow_loop"
    /\ ~LoopCondition(it, n_iter_min, n_iter_max, is_final_set_complete(conservative_reachability))
    /\ result' = ResultOf(is_final_set_complete(conservative_reachability))
    /\ final_node_ids' = FinalNodeIdsAtReturn(is_final_set_complete(conservative_reachability),
                                              final_node_ids,
                                              conservative_reachability.final_node_ids)
    /\ pc' = "grow_returned"
    /\ UNCHANGED << fns, graph, conservative_reachability, kdtree, goal, max_step, it,
                    n_iter_min, n_iter_max >>
    /\ UNCHANGED planOnlyVars
    /\ UNCHANGED call

NextGrow ==
    \/ GrowStart
    \/ GrowIterate
    \/ GrowReturn

SpecGrow == InitGrow /\ [][NextGrow]_vars

\* --------------------------------------------- grow_graph, a longer run
\* one map, one cell longer than the others, with the zone next to the start, and
\* twice the iterations: free, zone, free, free
LongCoords == 0 .. MaxCoord + 1
LongIter == 2 * MaxIter
LongMap == [c \in LongCoords |-> IF c = 1 THEN "zone" ELSE "free"]

InitGrowLong ==
    /\ pc = "grow_start"
    /\ fns = [observable |-> {}, cells |-> LongMap]
    /\ goal = [w \in Worlds |-> MaxCoord + 1]
    /\ max_step \in {1, 2}
    /\ n_iter_min = LongIter
    /\ n_iter_max = LongIter
    /\ graph = << >>
    /\ final_node_ids = << >>
    /\ conservative_reachability = Reachability_new
    /\ kdtree = {}
    /\ it = 0
    /\ result = "none"
    /\ node_to_belief_nodes = << >>
    /\ belief_graph = [nodes |-> << >>, reachable_belief_states |-> << >>]
    /\ expected_costs_to_goals = << >>
    /\ terminals = << >>
    /\ dist = << >>
    /\ q = {}
    /\ relaxed = {}
    /\ policy = EmptyPolicy
    /\ lifo = << >>
    /\ belief_node_of = << >>
    /\ expanded = {}
    /\ call = NoCall

SpecGrowLong == InitGrowLong /\ [][NextGrow]_vars

\* ------------------------------------------------ the functions, by call
\* the planner's fields as PRM::new leaves them
PlannerIdle ==
    /\ fns = [observable |-> {}, cells |-> [c \in Coords |-> "free"]]
    /\ graph = << >>
    /\ final_node_ids = << >>
    /\ node_to_belief_nodes = << >>
    /\ belief_graph = [nodes |-> << >>, reachable_belief_states |-> << >>]
    /\ expected_costs_to_goals = << >>
    /\ terminals = << >>
    /\ dist = << >>
    /\ q = {}
    /\ relaxed = {}
    /\ policy = EmptyPolicy
    /\ lifo = << >>
    /\ belief_node_of = << >>
    /\ expanded = {}
    /\ GrowIdle

\* the weights a belief vector is made of, in 1/ProbDen: 0, 0.4, 0.5, 0.6, 1
WeightChoices == {0, 4, 5, 6, ProbDen}

BeliefVectors == [Worlds -> WeightChoices]

\* the points steer is called on, and the steps
Points == Coords \X Coords
StepChoices == 1 .. MaxCoord + 1

InitCalls ==
    /\ pc = "call"
    /\ PlannerIdle
    /\ \/ \E parent_bs \in BeliefVectors, child_bs \in BeliefVectors :
             call = [fn |-> "transition_probability", args |-> << parent_bs, child_bs >>,
                     ret |-> None]
       \/ \E from \in Points, to \in Points, step_max \in StepChoices :
             call = [fn |-> "steer", args |-> << from, to, step_max >>, ret |-> None]

\* transition_probability(&parent_bs, &child_bs), as test_transitions calls it
CallTransitionProbability ==
    /\ pc = "call"
    /\ call.fn = "transition_probability"
    /\ call' = [call EXCEPT !.ret = Some(transition_probability(call.args[1], call.args[2]))]
    /\ pc' = "returned"
    /\ UNCHANGED planVars
    /\ UNCHANGED growVars

\* steer(&from, &mut to, max_step), as grow_graph calls it; ret is what is left in `to`
CallSteer ==
    /\ pc = "call"
    /\ call.fn = "steer"
    /\ call' = [call EXCEPT !.ret = Some(steer_exact(call.args[1], call.args[2], call.args[3]))]
    /\ pc' = "returned"
    /\ UNCHANGED planVars
    /\ UNCHANGED growVars

NextCalls ==
    \/ CallTransitionProbability
    \/ CallSteer

SpecCalls == InitCalls /\ [][NextCalls]_vars

\* ------------------------------------------------- grow, then plan
\* the tests' sequence: grow_graph(..).expect(..), then plan_belief_space, followed up
\* to the solver's first state
PlanAfterGrow ==
    /\ pc = "grow_returned"
    /\ result = "Ok"
    /\ pc' = "build"
    /\ UNCHANGED planVars
    /\ UNCHANGED growVars
    /\ UNCHANGED call

NextGrowPlan ==
    \/ GrowStart
    \/ GrowIterate
    \/ GrowReturn
    \/ PlanAfterGrow
    \/ BuildBeliefGraph
    \/ DijkstraInit

SpecGrowPlan == InitGrow /\ [][NextGrowPlan]_vars

\* ------------------------------------------------------------ map_io.rs
\* A u32 is the pair << high half, low half >>, each half below Half.
Half == 2 ^ (U32Bits \div 2)

U32_of(n) == << n \div Half, n % Half >>

U32_lt(a, b) == a[1] < b[1] \/ (a[1] = b[1] /\ a[2] < b[2])

\* a * b in u32: the wrapped product, and whether it overflowed
U32_mul(a, b) ==
    LET lo == a[2] * b[2]
        hi == a[1] * b[2] + a[2] * b[1] + lo \div Half
    IN  [value |-> << hi % Half, lo % Half >>,
         overflow |-> a[1] * b[1] # 0 \/ hi >= Half]

\* the loop of u32::pow, by squaring: while exp > 1 { if exp & 1 == 1 { acc = acc *
\* base }; exp /= 2; base = base * base }; acc * base
RECURSIVE pow_loop(_, _, _, _)
pow_loop(base, acc, exp, overflow) ==
    IF exp > 1
    THEN LET odd == exp % 2 = 1
             next_acc == IF odd THEN U32_mul(acc, base) ELSE [value |-> acc, overflow |-> FALSE]
             next_base == U32_mul(base, base)
         IN  pow_loop(next_base.value, next_acc.value, exp \div 2,
                      overflow \/ next_acc.overflow \/ next_base.overflow)
    ELSE [value |-> U32_mul(acc, base).value,
          overflow |-> overflow \/ U32_mul(acc, base).overflow]

\* (2 as u32).pow(exp): the wrapped value, and whether a product overflowed
pow2_u32(exp) ==
    IF exp = 0 THEN [value |-> U32_of(1), overflow |-> FALSE]
    ELSE pow_loop(U32_of(2), U32_of(1), exp, FALSE)

\* world >> n
RECURSIVE ShiftRight(_, _)
ShiftRight(world, n) ==
    IF n = 0 \/ world = 0 THEN world ELSE ShiftRight(world \div 2, n - 1)

\* Result<bool, ()>
Ok(b) == << "Ok", b >>
Err == << "Err" >>

\* Map::get_zone_status: world & (1 << zone_index) != 0
get_zone_status(map, world, zone_index) ==
    IF zone_index < map.n_zones /\ U32_lt(U32_of(world), map.n_worlds)
    THEN Ok(ShiftRight(world, zone_index) % 2 # 0)
    ELSE Err

\* Map::zone_index_to_world_mask: the worlds whose status for the zone is Ok(true); the
\* model builds masks of fewer than Half bits only
Map_zone_index_to_world_mask(map, zone_index) ==
    {world \in 0 .. map.n_worlds[2] - 1 : get_zone_status(map, world, zone_index) = Ok(TRUE)}

\* the largest zone id of the zone image, from 0: add_zones' double loop
MaxId(zone_ids) ==
    IF zone_ids = {} THEN 0 ELSE CHOOSE id \in zone_ids : \A o \in zone_ids : o <= id

\* the zone images, as the set of their zone ids: the ids below k, no zone pixel at
\* all, and one image whose largest id is U32Bits - 1
ZoneImages == {0 .. k - 1 : k \in 0 .. MaxZones} \cup {{U32Bits - 1}}

\* the world and zone indices get_zone_status is called with
WorldChoices == 0 .. 2 ^ MaxZones
ZoneChoices == (0 .. MaxZones) \cup {U32Bits - 1, U32Bits}

\* Map::open
InitMap ==
    /\ pc = "map_open"
    /\ \E zone_ids \in ZoneImages :
          fns = [zone_ids |-> zone_ids, n_zones |-> 0, n_worlds |-> U32_of(0),
                 zones_to_worlds |-> << >>]
    /\ graph = << >>
    /\ final_node_ids = << >>
    /\ node_to_belief_nodes = << >>
    /\ belief_graph = [nodes |-> << >>, reachable_belief_states |-> << >>]
    /\ expected_costs_to_goals = << >>
    /\ terminals = << >>
    /\ dist = << >>
    /\ q = {}
    /\ relaxed = {}
    /\ policy = EmptyPolicy
    /\ lifo = << >>
    /\ belief_node_of = << >>
    /\ expanded = {}
    /\ GrowIdle
    /\ call = NoCall

mapFrame == << graph, final_node_ids, node_to_belief_nodes, belief_graph,
               expected_costs_to_goals, terminals, dist, q, relaxed, policy, lifo,
               belief_node_of, expanded >>

\* Map::add_zones, map_io.rs 60-87; an overflowing pow panics in a build with overflow
\* checks and wraps in a build without
AddZones ==
    /\ pc = "map_open"
    /\ LET n_zones == MaxId(fns.zone_ids) + 1
           n_worlds == pow2_u32(n_zones)
           sized == [fns EXCEPT !.n_zones = n_zones, !.n_worlds = n_worlds.value]
       IN  \/ /\ n_worlds.overflow
              /\ pc' = "panic_overflow"
              /\ fns' = [fns EXCEPT !.n_zones = n_zones]
           \/ /\ fns' = [sized EXCEPT !.zones_to_worlds =
                             [i \in 1 .. n_zones |-> Map_zone_index_to_world_mask(sized, i - 1)]]
              /\ pc' = "map_ready"
    /\ UNCHANGED mapFrame
    /\ UNCHANGED growVars
    /\ UNCHANGED call

\* one call of get_zone_status on the map
CallGetZoneStatus ==
    /\ pc = "map_ready"
    /\ \E world \in WorldChoices, zone_index \in ZoneChoices :
          call' = [fn |-> "get_zone_status", args |-> << world, zone_index >>,
                   ret |-> Some(get_zone_status(fns, world, zone_index))]
    /\ pc' = "map_called"
    /\ UNCHANGED planVars
    /\ UNCHANGED growVars

NextMap ==
    \/ AddZones
    \/ CallGetZoneStatus

SpecMap == InitMap /\ [][NextMap]_vars

\* ------------------------------------------------------ the two entries
\* plan_belief_space up to the end of build_belief_graph, on a start belief of any
\* length, and grow_graph up to the loop, on a map whose start may lie in a wall.
EntryBeliefs == UNION {[0 .. n - 1 -> WeightChoices] : n \in 1 .. NWorlds + 1}

EntryMaps ==
    {m \in [Coords -> {"free", "zone", "obstacle"}] :
        \A c \in Coords \ {0} : m[c] = "free"}

\* the roadmap 0 - 1 - 2 with every pair joined, node 2 in free space or in the zone
EntryGraphs ==
    {MockGraph([l \in Loc |-> l], val,
               [e \in Pairs |-> Some(val[e[1]] \cap val[e[2]])]) :
        val \in {v \in [Loc -> WorldMasks] : \A l \in Loc : v[l] \in ValidityChoices(l)}}

InitEntry ==
    /\ node_to_belief_nodes = << >>
    /\ belief_graph = [nodes |-> << >>, reachable_belief_states |-> << >>]
    /\ expected_costs_to_goals = << >>
    /\ terminals = << >>
    /\ dist = << >>
    /\ q = {}
    /\ relaxed = {}
    /\ policy = EmptyPolicy
    /\ lifo = << >>
    /\ belief_node_of = << >>
    /\ expanded = {}
    /\ conservative_reachability = Reachability_new
    /\ kdtree = {}
    /\ max_step = 1
    /\ it = 0
    /\ n_iter_min = 0
    /\ n_iter_max = 0
    /\ result = "none"
    /\ \/ /\ pc = "plan_entry"
          /\ fns \in {[observable |-> S, cells |-> [c \in Coords |-> "free"]] :
                         S \in {{}, {1}}}
          /\ graph \in EntryGraphs
          /\ final_node_ids = << 2 >>
          /\ goal = << >>
          /\ \E start_belief_state \in EntryBeliefs :
                call = [fn |-> "plan_belief_space", args |-> << start_belief_state >>,
                        ret |-> None]
       \/ /\ pc = "grow_start"
          /\ fns \in {[observable |-> {}, cells |-> m] : m \in EntryMaps}
          /\ graph = << >>
          /\ final_node_ids = << >>
          /\ goal \in GoalChoices
          /\ call = [fn |-> "grow_graph", args |-> << 0 >>, ret |-> None]

\* prm.rs 139-144: the assertion, then build_belief_graph
PlanBeliefSpaceEnter ==
    /\ pc = "plan_entry"
    /\ LET start_belief_state == call.args[1]
       IN  IF ~BeliefStateIsValid(start_belief_state)
           THEN /\ pc' = "panic_belief_state"
                /\ UNCHANGED << belief_graph, node_to_belief_nodes >>
           ELSE /\ belief_graph' = build_belief_graph(fns, graph, start_belief_state)
                /\ node_to_belief_nodes' =
                       NodeToBeliefNodes(graph, ReachableBeliefStates(start_belief_state))
                /\ pc' = "built"
    /\ UNCHANGED << fns, graph, final_node_ids, expected_costs_to_goals, terminals, dist,
                    q, relaxed, policy, lifo, belief_node_of, expanded >>
    /\ UNCHANGED growVars
    /\ UNCHANGED call

NextEntry ==
    \/ PlanBeliefSpaceEnter
    \/ GrowStart

SpecEntry == InitEntry /\ [][NextEntry]_vars

\* ------------------------------------------------ the tracker on its own
\* Any sequence of add_node, add_edge and add_final_node on a tracker whose root is
\* set, up to one final node per world and no node final twice; call holds the last
\* operation.
TrackerMasks == WorldMasks \ {{}}

InitTracker ==
    /\ pc = "tracker"
    /\ fns = [observable |-> {}, cells |-> [c \in Coords |-> "free"]]
    /\ graph = << >>
    /\ final_node_ids = << >>
    /\ node_to_belief_nodes = << >>
    /\ belief_graph = [nodes |-> << >>, reachable_belief_states |-> << >>]
    /\ expected_costs_to_goals = << >>
    /\ terminals = << >>
    /\ dist = << >>
    /\ q = {}
    /\ relaxed = {}
    /\ policy = EmptyPolicy
    /\ lifo = << >>
    /\ belief_node_of = << >>
    /\ expanded = {}
    /\ kdtree = {}
    /\ goal = << >>
    /\ max_step = 0
    /\ it = 0
    /\ n_iter_min = 0
    /\ n_iter_max = 0
    /\ result = "none"
    /\ \E mask \in TrackerMasks :
          /\ conservative_reachability = Reachability_set_root(Reachability_new, mask)
          /\ call = [fn |-> "set_root", args |-> << mask >>, ret |-> None]

trackerFrame == << pc, planVars, kdtree, goal, max_step, it, n_iter_min, n_iter_max, result >>

TrackerAddNode ==
    /\ pc = "tracker"
    /\ NNodes(conservative_reachability.validity) <= MaxTracked
    /\ \E mask \in TrackerMasks :
          /\ conservative_reachability' = Reachability_add_node(conservative_reachability, mask)
          /\ call' = [fn |-> "add_node", args |-> << mask >>, ret |-> None]
    /\ UNCHANGED trackerFrame

TrackerAddEdge ==
    /\ pc = "tracker"
    /\ \E from \in DOMAIN conservative_reachability.validity,
          to \in DOMAIN conservative_reachability.validity :
          /\ from # to
          /\ conservative_reachability' =
                 Reachability_add_edge(conservative_reachability, from, to)
          /\ call' = [fn |-> "add_edge", args |-> << from, to >>, ret |-> None]
    /\ UNCHANGED trackerFrame

TrackerAddFinal ==
    /\ pc = "tracker"
    /\ Len(conservative_reachability.final_node_ids) < NWorlds
    /\ \E id \in DOMAIN conservative_reachability.validity, finality \in TrackerMasks :
          /\ id \notin SeqRange(conservative_reachability.final_node_ids)
          /\ conservative_reachability' =
                 Reachability_add_final_node(conservative_reachability, id, finality)
          /\ call' = [fn |-> "add_final_node", args |-> << id, finality >>, ret |-> None]
    /\ UNCHANGED trackerFrame

NextTracker ==
    \/ TrackerAddNode
    \/ TrackerAddEdge
    \/ TrackerAddFinal

SpecTracker == InitTracker /\ [][NextTracker]_vars

\* =================================================================== claims
BeliefNodes == DOMAIN belief_graph.nodes
BNode(c) == belief_graph.nodes[c]
Terminals == SeqRange(terminals)

\* conditional_dijkstra has returned
SolverReturned ==
    pc \in {"extract_init", "extract", "done", "queried", "panic_p", "panic_best_cost",
            "panic_no_graph"}

\* the candidate of child number n of u, with the final dist: the edge's cost plus
\* the child's dist
ThroughChild(u, n) ==
    F_add(CostEvaluator(BNode(u).state, BNode(BNode(u).children[n]).state),
          dist[BNode(u).children[n]])

\* the expectation over all the children of u, with the final dist
RECURSIVE ExpectationFrom(_, _)
ExpectationFrom(u, n) ==
    IF n > Len(BNode(u).children) THEN 0
    ELSE F_add(F_mul(transition_probability(BNode(u).belief_state,
                                            BNode(BNode(u).children[n]).belief_state),
                     ThroughChild(u, n)),
               ExpectationFrom(u, n + 1))

\* C4: when conditional_dijkstra has returned, every non-terminal node with a finite
\* dist satisfies the optimality equation of its kind: an Action node's dist is the
\* least, over its children, of edge cost plus child dist, and a child attains it; an
\* Observation node's dist is the expectation, over all its children, of edge cost
\* plus child dist, with the final dist values.
C4_Optimality ==
    SolverReturned =>
        \A u \in BeliefNodes \ Terminals :
            IsFinite(dist[u]) =>
                \/ /\ BNode(u).node_type = "Action"
                   /\ \E n \in 1 .. Len(BNode(u).children) : ThroughChild(u, n) = dist[u]
                   /\ \A n \in 1 .. Len(BNode(u).children) : F_le(dist[u], ThroughChild(u, n))
                \/ /\ BNode(u).node_type = "Observation"
                   /\ dist[u] = ExpectationFrom(u, 1)

\* C4's case: an Action node that is no terminal has two children and takes the
\* strictly better one, and an Observation node that is no terminal has a finite
\* dist over two children of different dist.
C4_Witness ==
    /\ SolverReturned
    /\ \E u \in BeliefNodes \ Terminals :
          /\ BNode(u).node_type = "Action" /\ IsFinite(dist[u])
          /\ \E n, m \in 1 .. Len(BNode(u).children) :
                F_lt(ThroughChild(u, n), ThroughChild(u, m))
    /\ \E u \in BeliefNodes \ Terminals :
          /\ BNode(u).node_type = "Observation" /\ IsFinite(dist[u])
          /\ \E n, m \in 1 .. Len(BNode(u).children) :
                F_lt(ThroughChild(u, n), ThroughChild(u, m))

\* the nodes from which a terminal is reached along child edges
RECURSIVE BackwardClosure(_)
BackwardClosure(S) ==
    LET more == {u \in BeliefNodes : \E n \in 1 .. Len(BNode(u).children) : BNode(u).children[n] \in S}
    IN  IF more \subseteq S THEN S ELSE BackwardClosure(S \cup more)

CanReachTerminal == BackwardClosure(Terminals)

\* C5: when conditional_dijkstra has returned, every terminal has dist 0, every node
\* from which no terminal is reached along child edges has dist +infinity, and a node
\* that is no terminal has dist +infinity exactly when line 116 never wrote its dist.
C5_TerminalsAndUnreached ==
    SolverReturned =>
        /\ \A t \in Terminals : dist[t] = 0
        /\ \A u \in BeliefNodes \ CanReachTerminal : dist[u] = INFINITY
        /\ \A u \in BeliefNodes \ Terminals : (dist[u] = INFINITY) <=> (u \notin relaxed)

\* C5's case: a terminal with a parent, a relaxed node, a node that reaches no
\* terminal, and a node that reaches one and stays at +infinity all the same.
C5_Witness ==
    /\ SolverReturned
    /\ \E t \in Terminals : Len(BNode(t).parents) > 0 /\ Len(BNode(t).children) > 0
    /\ relaxed # {}
    /\ \E u \in BeliefNodes \ CanReachTerminal : Len(BNode(u).children) > 0
    /\ \E u \in CanReachTerminal \ Terminals : dist[u] = INFINITY

\* the belief node of policy node pn
BeliefNodeOf(pn) == belief_node_of[pn + 1]
PolicyNodes == DOMAIN policy.nodes
PNode(pn) == policy.nodes[pn]
P(u, v) == transition_probability(BNode(u).belief_state, BNode(v).belief_state)

\* C6: during extract_policy on a solved belief graph the assertion of line 216 never
\* fails: every selected child v of every expanded u, the root included, has
\* P(u.belief -> v.belief) * dist[v] <= dist[u].
C6_AssertionNeverFails ==
    /\ pc # "panic_best_cost"
    /\ \A pn \in expanded : \A n \in 1 .. Len(PNode(pn).children) :
          LET u == BeliefNodeOf(pn)
              v == BeliefNodeOf(PNode(pn).children[n])
          IN  F_le(F_mul(P(u, v), dist[v]), dist[u])

\* C6's failing case: the root is a terminal, so its dist is 0, and the child selected
\* for it has a positive dist
C6_RootTerminalPanics ==
    /\ pc = "panic_best_cost"
    /\ 0 \in Terminals
    /\ dist[0] = 0
    /\ expanded = {}

\* C7: the extractor never descends into a child whose dist is +infinity: no policy
\* node is created for such a child.
C7_NoInfiniteChild ==
    \A pn \in PolicyNodes \ {0} : dist[BeliefNodeOf(pn)] # INFINITY

\* C7's failing case: the root's dist is +infinity and the policy has reached MaxPolicy
\* nodes with lifo still not empty
C7_InfiniteDescent ==
    /\ pc = "extract"
    /\ dist[0] = INFINITY
    /\ NNodes(policy.nodes) >= MaxPolicy
    /\ lifo # << >>

\* C8: for every expanded Action belief node u with finite nonzero dist, the single
\* child v chosen for the policy satisfies cost(u, v) + dist[v] = dist[u].
C8_PolicyIsOptimal ==
    \A pn \in expanded :
        LET u == BeliefNodeOf(pn)
        IN  BNode(u).node_type = "Action" /\ IsFinite(dist[u]) /\ dist[u] # 0 =>
                /\ Len(PNode(pn).children) = 1
                /\ LET v == BeliefNodeOf(PNode(pn).children[1])
                   IN  F_add(CostEvaluator(BNode(u).state, BNode(v).state), dist[v]) = dist[u]

\* C8's failing case: the chosen child has the least dist, and another child is
\* strictly cheaper once the edge's cost is added
C8_CheaperChildIgnored ==
    \E pn \in expanded :
        LET u == BeliefNodeOf(pn)
        IN  /\ BNode(u).node_type = "Action" /\ IsFinite(dist[u]) /\ dist[u] # 0
            /\ Len(PNode(pn).children) = 1
            /\ LET v == BeliefNodeOf(PNode(pn).children[1])
               IN  F_lt(dist[u], F_add(CostEvaluator(BNode(u).state, BNode(v).state), dist[v]))

\* the belief ids occurring among the children of belief node u
ChildBeliefIds(u) == {BNode(BNode(u).children[n]).belief_id : n \in 1 .. Len(BNode(u).children)}

\* the positions in u.children of the children whose belief id is k
GroupPositions(u, k) == {n \in 1 .. Len(BNode(u).children) : BNode(BNode(u).children[n]).belief_id = k}

\* p * dist of the child at position n of u.children
Weighted(u, n) == F_mul(P(u, BNode(u).children[n]), dist[BNode(u).children[n]])

\* C9: for every belief node u expanded by extract_policy, the policy children of u
\* are exactly one per distinct belief_id among u.children, and the child chosen for a
\* belief_id is the first one in u.children order that attains the minimum of
\* P(u.belief -> child.belief) * dist[child] within that group; so an Action node with
\* children gets exactly one policy child and an Observation node one per posterior
\* belief.
C9_OnePerBeliefFirstMinimum ==
    \A pn \in expanded :
        LET u == BeliefNodeOf(pn)
            chosen == [n \in 1 .. Len(PNode(pn).children) |-> BeliefNodeOf(PNode(pn).children[n])]
        IN  /\ Len(chosen) = Cardinality(ChildBeliefIds(u))
            /\ {BNode(chosen[n]).belief_id : n \in 1 .. Len(chosen)} = ChildBeliefIds(u)
            /\ \A n \in 1 .. Len(chosen) :
                  \E at \in GroupPositions(u, BNode(chosen[n]).belief_id) :
                      /\ BNode(u).children[at] = chosen[n]
                      /\ \A m \in GroupPositions(u, BNode(chosen[n]).belief_id) :
                            /\ F_le(Weighted(u, at), Weighted(u, m))
                            /\ m < at => F_lt(Weighted(u, at), Weighted(u, m))
            /\ BNode(u).node_type = "Action" => Len(chosen) = 1
            /\ BNode(u).node_type = "Observation" => Len(chosen) = Len(BNode(u).children)

\* C9's case: an expanded Action node has two children of equal p * dist and the
\* policy takes the one that comes first, and an expanded Observation node has a
\* policy child for each of its two posterior beliefs.
C9_Witness ==
    /\ \E pn \in expanded :
          LET u == BeliefNodeOf(pn)
          IN  /\ BNode(u).node_type = "Action"
              /\ Len(PNode(pn).children) = 1
              /\ \E n, m \in 1 .. Len(BNode(u).children) :
                    /\ n < m
                    /\ Weighted(u, n) = Weighted(u, m)
                    /\ IsFinite(Weighted(u, n))
                    /\ BNode(u).children[n] # BNode(u).children[m]
                    /\ BNode(u).children[n] = BeliefNodeOf(PNode(pn).children[1])
    /\ \E pn \in expanded :
          /\ BNode(BeliefNodeOf(pn)).node_type = "Observation"
          /\ Len(PNode(pn).children) = 2

\* the policy nodes marked as leaves
LeafNodes == {pn \in PolicyNodes : PNode(pn).is_leaf}

\* the policy nodes waiting on lifo
Waiting == {lifo[n][1] : n \in 1 .. Len(lifo)}

RECURSIVE ConnectedInWorld(_, _)
ConnectedInWorld(w, S) ==
    LET more == {m \in DOMAIN graph :
                    /\ w \in graph[m].validity
                    /\ \E n \in S : \E k \in 1 .. Len(graph[n].children) :
                          graph[n].children[k].id = m /\ w \in graph[n].children[k].validity}
    IN  IF more \subseteq S THEN S ELSE ConnectedInWorld(w, S \cup more)

RootedInWorld(w) == ConnectedInWorld(w, {n \in {0} : w \in graph[0].validity})

Recorded == conservative_reachability.final_node_ids

\* C1: whenever grow_graph returns Ok, for every world w there is a recorded final
\* node whose goal mask has bit w and that the root is connected to by a directed
\* roadmap path all of whose nodes have validity bit w and all of whose edges have
\* mask bit w.
C1_OkMeansEveryWorldReachesItsGoal ==
    result = "Ok" =>
        \A w \in Worlds : \E n \in 1 .. Len(Recorded) :
            /\ w \in conservative_reachability.finality[n]
            /\ Recorded[n] \in RootedInWorld(w)

\* C1's failing case: Ok is returned, a recorded final node has the goal bit of every
\* world, and in some world no path reaches it, its recorded reachability
\* notwithstanding
C1_OkThroughClosedEdge ==
    /\ result = "Ok"
    /\ \E w \in Worlds : \A n \in 1 .. Len(Recorded) :
          /\ conservative_reachability.finality[n] = Worlds
          /\ w \in conservative_reachability.reachability[Recorded[n]]
          /\ Recorded[n] \notin RootedInWorld(w)

\* g2 has every node of g1, with its state and validity, and every edge of g1
Extends(g2, g1) ==
    \A n \in DOMAIN g1 :
        /\ n \in DOMAIN g2
        /\ g2[n].state = g1[n].state
        /\ g2[n].validity = g1[n].validity
        /\ Len(g2[n].children) >= Len(g1[n].children)
        /\ SubSeq(g2[n].children, 1, Len(g1[n].children)) = g1[n].children

\* C2: grow_graph returns an error value exactly when the terminal set is not
\* complete at loop exit; no step of the call removes a roadmap node or edge, so all
\* that was added is still in the graph then; and final_node_ids is assigned only on
\* Ok, where it becomes the recorded final nodes.
C2_ErrKeepsGraphAndFinalIds ==
    [][ /\ Extends(graph', graph)
        /\ result' = "Err" <=>
              (pc' = "grow_returned" /\ ~is_final_set_complete(conservative_reachability'))
        /\ result' = "Ok" <=>
              (pc' = "grow_returned" /\ is_final_set_complete(conservative_reachability'))
        /\ result' # "Ok" => final_node_ids' = final_node_ids
        /\ result' = "Ok" => final_node_ids' = Recorded' ]_vars

\* C2's case: Err is returned with a node and edges added and a final node recorded
C2_Witness ==
    /\ result = "Err"
    /\ NNodes(graph) >= 2
    /\ \E n \in DOMAIN graph : Len(graph[n].children) > 0
    /\ Len(Recorded) > 0
    /\ final_node_ids = << >>

\* C3: the loop of grow_graph stops at the first iteration count i such that (i >=
\* n_min and the terminal set is complete) or i >= n_max; so for any n_min and n_max,
\* n_min > n_max included, it never performs more than n_max iterations.
C3_NeverMoreThanNMax ==
    /\ it <= n_iter_max
    /\ pc = "grow_returned" =>
          \/ it >= n_iter_min /\ is_final_set_complete(conservative_reachability)
          \/ it >= n_iter_max

\* C3's failing case: n_min > n_max and the loop has gone on to n_min iterations
C3_BudgetExceeded ==
    /\ pc = "grow_returned"
    /\ n_iter_min > n_iter_max
    /\ it = n_iter_min

\* the policy nodes from the root down to pn, by parent links
RECURSIVE AncestorChain(_)
AncestorChain(pn) ==
    IF PNode(pn).parent = None THEN << pn >>
    ELSE Append(AncestorChain(Unwrap(PNode(pn).parent)), pn)

\* the places (node, position) of the children lists where pn stands
ChildSlots(pn) ==
    {sl \in PolicyNodes \X (1 .. MaxPolicy + NWorlds) :
        sl[2] <= Len(PNode(sl[1]).children) /\ PNode(sl[1]).children[sl[2]] = pn}

RECURSIVE SumOn(_, _)
SumOn(S, f) ==
    IF S = {} THEN 0
    ELSE LET i == CHOOSE x \in S : TRUE IN f[i] + SumOn(S \ {i}, f)

Support(f) == {i \in Worlds : f[i] > 0}

\* C12: transition_probability(q, p) is the sum of q[i] over exactly the world
\* indices i with p[i] > 0; so it is 0 whenever q and p have disjoint supports and 1
\* whenever p = q and q sums to 1.
C12_TransitionProbability ==
    call.fn = "transition_probability" /\ call.ret # None =>
        LET qq == call.args[1]
            pp == call.args[2]
            value == Unwrap(call.ret)
        IN  /\ value = SumOn(Support(pp), qq)
            /\ Support(qq) \cap Support(pp) = {} => value = 0
            /\ pp = qq /\ SumOn(Worlds, qq) = ProbDen => value = ProbDen

\* C12's case: TP([0.4, 0.6], [1, 0]) has returned 0.4
C12_Witness ==
    /\ call.fn = "transition_probability"
    /\ call.args = << StartBelief, PointBelief(0) >>
    /\ call.ret = Some(4)

\* the belief graph has been built
Lifted == DOMAIN belief_graph.nodes # {}

\* the roadmap node of belief node c
RoadmapNodeOf(c) == c \div Len(belief_graph.reachable_belief_states)

ChildrenOf(u) == SeqRange(BNode(u).children)

\* an observation edge: the child is at the same roadmap node, with another belief id
IsObservationEdge(u, v) ==
    RoadmapNodeOf(u) = RoadmapNodeOf(v) /\ BNode(u).belief_id # BNode(v).belief_id

\* the masks of the roadmap edges from the roadmap node of u to that of v
RoadmapEdgeMasks(u, v) ==
    {graph[RoadmapNodeOf(u)].children[k].validity :
        k \in {n \in 1 .. Len(graph[RoadmapNodeOf(u)].children) :
                  graph[RoadmapNodeOf(u)].children[n].id = RoadmapNodeOf(v)}}

\* an action edge: the child is at an adjacent roadmap node, with the same belief id
IsActionEdge(u, v) ==
    /\ RoadmapNodeOf(u) # RoadmapNodeOf(v)
    /\ RoadmapEdgeMasks(u, v) # {}
    /\ BNode(u).belief_id = BNode(v).belief_id

\* C13: in every belief graph build_belief_graph produces, a node of kind Observation
\* has only observation outgoing edges, a node of kind Action has only action outgoing
\* edges, and no node carries both kinds of outgoing edge.
C13_KindsOfEdgeDoNotMix ==
    Lifted =>
        \A u \in BeliefNodes :
            /\ BNode(u).node_type = "Observation" =>
                  \A v \in ChildrenOf(u) : IsObservationEdge(u, v) /\ ~IsActionEdge(u, v)
            /\ BNode(u).node_type = "Action" =>
                  \A v \in ChildrenOf(u) : IsActionEdge(u, v) /\ ~IsObservationEdge(u, v)
            /\ ~(\E v, w \in ChildrenOf(u) : IsObservationEdge(u, v) /\ IsActionEdge(u, w))
            /\ BNode(u).node_type = "Unknown" => ChildrenOf(u) = {}

\* C13's case: an Observation node with two posteriors stands on a roadmap node that
\* has a roadmap edge its belief could take, and an Action node has two children
C13_Witness ==
    /\ Lifted
    /\ \E u \in BeliefNodes :
          /\ BNode(u).node_type = "Observation"
          /\ Cardinality(ChildrenOf(u)) = 2
          /\ \E k \in 1 .. Len(graph[RoadmapNodeOf(u)].children) :
                graph[RoadmapNodeOf(u)].children[k].validity = Worlds
    /\ \E u \in BeliefNodes :
          BNode(u).node_type = "Action" /\ Cardinality(ChildrenOf(u)) = 2

\* the worlds a belief gives weight to all lie in the mask
SupportWithin(belief_state, mask) == Support(belief_state) \subseteq mask

\* C14: in every belief graph build_belief_graph produces, the belief id changes only
\* across edges leaving Observation nodes: every child of a node that is not of kind
\* Observation has the node's belief_id, the roadmap has an edge between their roadmap
\* nodes, and the node's belief is compatible with that edge's mask and with the
\* validity of both ends.
C14_ActionEdgesKeepBelief ==
    Lifted =>
        \A u \in BeliefNodes :
            BNode(u).node_type # "Observation" =>
                \A v \in ChildrenOf(u) :
                    /\ BNode(v).belief_id = BNode(u).belief_id
                    /\ \E mask \in RoadmapEdgeMasks(u, v) : SupportWithin(BNode(u).belief_state, mask)
                    /\ SupportWithin(BNode(u).belief_state, graph[RoadmapNodeOf(u)].validity)
                    /\ SupportWithin(BNode(u).belief_state, graph[RoadmapNodeOf(v)].validity)

\* C14's case: a known-world belief takes a roadmap edge open in its world only, and
\* the start belief, at home on both ends of that edge, does not
C14_Witness ==
    /\ Lifted
    /\ \E u \in BeliefNodes : \E v \in ChildrenOf(u) :
          /\ BNode(u).node_type = "Action"
          /\ BNode(u).belief_state = PointBelief(1)
          /\ RoadmapEdgeMasks(u, v) = {{1}}
          /\ graph[RoadmapNodeOf(u)].validity = Worlds
          /\ graph[RoadmapNodeOf(v)].validity = Worlds
          /\ \E u0 \in BeliefNodes :
                /\ RoadmapNodeOf(u0) = RoadmapNodeOf(u)
                /\ BNode(u0).belief_state = StartBelief
                /\ BNode(u0).node_type = "Action"
                /\ \A v0 \in ChildrenOf(u0) : RoadmapNodeOf(v0) # RoadmapNodeOf(v)

\* C15: observation is irreversible in the lifted graph: whenever build_belief_graph
\* has added an observation edge from (n, k) to (n, j), the node (n, j) has no
\* outgoing edge back to (n, k).
C15_ObservationIsIrreversible ==
    Lifted =>
        \A u \in BeliefNodes : \A v \in ChildrenOf(u) :
            IsObservationEdge(u, v) => u \notin ChildrenOf(v)

\* C15's case: an observation edge leads to a node that has outgoing edges
C15_Witness ==
    /\ Lifted
    /\ \E u \in BeliefNodes : \E v \in ChildrenOf(u) :
          IsObservationEdge(u, v) /\ ChildrenOf(v) # {}

\* the roadmap edges, as (source, position in the source's children list)
EdgesOf(g) == UNION {{<< u, k >> : k \in 1 .. Len(g[u].children)} : u \in DOMAIN g}

EdgeTarget(g, e) == g[e[1]].children[e[2]].id
EdgeMask(g, e) == g[e[1]].children[e[2]].validity

EdgeCount(g, u, v, m) ==
    Cardinality({k \in 1 .. Len(g[u].children) :
                    g[u].children[k].id = v /\ g[u].children[k].validity = m})

\* the edges of g2 that g1 has not
NewEdges(g1, g2) ==
    {e \in EdgesOf(g2) : e[1] \notin DOMAIN g1 \/ e[2] > Len(g1[e[1]].children)}

\* C17: grow_graph installs edges symmetrically: after each step the roadmap has an
\* edge u -> v with mask m exactly as often as the edge v -> u with mask m, and for
\* each edge u -> v the step installs, the tracker holds reachability[v] >=
\* reachability[u] & validity[v], the update of that direction.
C17_EdgesBothWays ==
    [][ /\ \A e \in EdgesOf(graph') :
              LET u == e[1]
                  v == EdgeTarget(graph', e)
                  m == EdgeMask(graph', e)
              IN  EdgeCount(graph', u, v, m) = EdgeCount(graph', v, u, m)
        /\ \A e \in NewEdges(graph, graph') :
              (conservative_reachability'.reachability[e[1]]
                   \cap conservative_reachability'.validity[EdgeTarget(graph', e)])
                 \subseteq conservative_reachability'.reachability[EdgeTarget(graph', e)] ]_vars

\* C17's case: a new node has been connected to two neighbours at once, one of the
\* edges crossing the zone
C17_Witness ==
    /\ NNodes(graph) = 3
    /\ Len(graph[2].children) = 2
    /\ \E e \in EdgesOf(graph) : e[1] = 2 /\ EdgeMask(graph, e) = zone_index_to_world_mask
    /\ \E e \in EdgesOf(graph) : e[1] = 2 /\ EdgeMask(graph, e) = Worlds

\* C18: over any sequence of tracker operations (add_node, add_edge, add_final_node),
\* is_final_set_complete never goes from true to false.
C18_CompleteStaysComplete ==
    [][is_final_set_complete(conservative_reachability)
          => is_final_set_complete(conservative_reachability')]_vars

\* C18's case: the final set is complete through two final nodes that each reach one
\* world only, and an edge has just been added into one of them
C18_Witness ==
    /\ pc = "tracker"
    /\ call.fn = "add_edge"
    /\ is_final_set_complete(conservative_reachability)
    /\ Len(conservative_reachability.final_node_ids) = 2
    /\ \A n \in 1 .. 2 :
          /\ conservative_reachability.reachability[conservative_reachability.final_node_ids[n]]
                # Worlds
          /\ conservative_reachability.final_node_ids[n] # 0
    /\ call.args[2] \in SeqRange(conservative_reachability.final_node_ids)

\* the tracker after the operations of the spec's example: a root valid in both worlds,
\* three nodes valid in world 0, world 0 and world 1, and the edges 0 -> 1, 1 -> 2, 1 -> 3
ExampleTracker ==
    LET r0 == Reachability_set_root(Reachability_new, Worlds)
        r1 == Reachability_add_node(r0, {0})
        r2 == Reachability_add_node(r1, {0})
        r3 == Reachability_add_node(r2, {1})
        r4 == Reachability_add_edge(r3, 0, 1)
        r5 == Reachability_add_edge(r4, 1, 2)
    IN  Reachability_add_edge(r5, 1, 3)

\* C19: add_edge(from, to) is local: reachability[to] becomes its old value or-ed with
\* reachability[from] & validity[to]; every other node's reachability, descendants of
\* `to` included, and every validity stay as they were.  On the example (root [1,1],
\* nodes [1,0], [1,0], [0,1], edges 0 -> 1, 1 -> 2, 1 -> 3) the reachability ends as
\* [1,1], [1,0], [1,0], [0,0].
C19_AddEdgeIsLocal ==
    [][call'.fn = "add_edge" =>
          LET from == call'.args[1]
              to == call'.args[2]
              old == conservative_reachability
              new == conservative_reachability'
          IN  /\ new.reachability[to] =
                    old.reachability[to] \cup (old.reachability[from] \cap old.validity[to])
              /\ \A n \in DOMAIN old.reachability \ {to} :
                    new.reachability[n] = old.reachability[n]
              /\ DOMAIN new.reachability = DOMAIN old.reachability
              /\ new.validity = old.validity
              /\ ExampleTracker.reachability =
                    (0 :> Worlds @@ 1 :> {0} @@ 2 :> {0} @@ 3 :> {})]_vars

\* C19's case: the edge 1 -> 2 was added before the edge 0 -> 1, and the edge 0 -> 1
\* has just made node 1 reachable in a world where node 2 is valid: node 2 stays
\* unreachable
C19_Witness ==
    /\ pc = "tracker"
    /\ call = [fn |-> "add_edge", args |-> << 0, 1 >>, ret |-> None]
    /\ NNodes(conservative_reachability.validity) = 3
    /\ conservative_reachability.reachability[2] = {}
    /\ conservative_reachability.reachability[1] \cap conservative_reachability.validity[2]
          # {}

\* the planner holds no roadmap node and no belief-graph node
NothingAdded == graph = << >> /\ belief_graph.nodes = << >>

\* C20: invalid input fails at entry, before any planner state is changed:
\* plan_belief_space aborts when the start belief's sum is not 1 (within 1e-6) or its
\* length is not the number of worlds, and grow_graph aborts when the start is
\* infeasible, in each case with no roadmap node and no belief-graph node added.
C20_InvalidInputAbortsAtEntry ==
    /\ (call.fn = "plan_belief_space" /\ pc # "plan_entry"
           /\ ~BeliefStateIsValid_WithLength(call.args[1]))
          => (pc = "panic_belief_state" /\ belief_graph.nodes = << >>)
    /\ (call.fn = "grow_graph" /\ pc # "grow_start"
           /\ state_validity(fns, call.args[1]) = None)
          => (pc = "panic_start" /\ NothingAdded)

\* C20's failing case: a start belief of three weights that sum to 1, in a planner of
\* two worlds, has passed the assertion and the belief graph has its nodes
C20_WrongLengthAccepted ==
    /\ call.fn = "plan_belief_space"
    /\ call.args[1] = (0 :> 4 @@ 1 :> 6 @@ 2 :> 0)
    /\ pc = "built"
    /\ NNodes(belief_graph.nodes) > 0

\* the roadmap edges into node v
IncomingEdges(g, v) == {e \in EdgesOf(g) : EdgeTarget(g, e) = v}

\* C21: when the radius query returns no neighbour and the transition oracle rejects
\* the edge to the nearest node used for steering, the sample is discarded: no roadmap
\* node, reachability entry or spatial-index entry is added for it, so every non-root
\* roadmap node has at least one incoming edge.
C21_NoNodeWithoutIncomingEdge ==
    \A v \in DOMAIN graph : v # 0 => IncomingEdges(graph, v) # {}

\* C21's failing case: a node beyond a wall was steered to from the root, the radius
\* query found nobody, the validator rejected the edge, and the node is in the roadmap,
\* in the tracker and in the spatial index all the same
C21_IsolatedNodeKept ==
    /\ pc = "grow_loop"
    /\ \E v \in DOMAIN graph :
          /\ v # 0
          /\ IncomingEdges(graph, v) = {}
          /\ graph[v].children = << >>
          /\ v \in DOMAIN conservative_reachability.validity
          /\ v \in kdtree
          /\ \E c \in Traversed(graph[0].state, graph[v].state) : fns.cells[c] = "obstacle"

\* C22: a new node enters the spatial index only after its validity is stored and its
\* edges and reachability updates are applied: every edge a step installs joins the
\* node the step indexes and a node that was indexed before the step, every indexed
\* node has its validity in the roadmap and in the tracker, and no roadmap edge is a
\* self-loop.
C22_IndexedLast ==
    [][ /\ \A e \in NewEdges(graph, graph') :
              \/ e[1] \in kdtree' \ kdtree /\ EdgeTarget(graph', e) \in kdtree
              \/ e[1] \in kdtree /\ EdgeTarget(graph', e) \in kdtree' \ kdtree
        /\ \A e \in EdgesOf(graph') : EdgeTarget(graph', e) # e[1]
        /\ \A v \in kdtree' :
              /\ v \in DOMAIN graph'
              /\ v \in DOMAIN conservative_reachability'.validity
              /\ conservative_reachability'.validity[v] = graph'[v].validity ]_vars

\* C22's case: a node was added at the very point of an indexed node, the radius query
\* returned that node, and the two are joined both ways
C22_Witness ==
    \E e \in EdgesOf(graph) :
        /\ EdgeTarget(graph, e) # e[1]
        /\ graph[EdgeTarget(graph, e)].state = graph[e[1]].state
        /\ {e[1], EdgeTarget(graph, e)} \subseteq kdtree
        /\ \E b \in EdgesOf(graph) : b[1] = EdgeTarget(graph, e) /\ EdgeTarget(graph, b) = e[1]

\* what the incoming edges of v give it: the OR of source reachability & v's validity
FromIncoming(g, r, v) ==
    UNION {r.reachability[e[1]] \cap r.validity[v] : e \in IncomingEdges(g, v)}

C24_SolverTerminatesDistOnlyDecreases ==
    /\ (pc = "dijkstra") ~> (pc = "extract_init" /\ q = {})
    /\ [][(pc = "dijkstra" /\ pc' = "dijkstra") =>
             /\ \A u \in DOMAIN dist : F_le(dist'[u], dist[u])
             /\ \A e \in q' \ q : F_lt(dist'[e[1]], dist[e[1]]) /\ e[2] = dist'[e[1]]]_vars

\* C24's case: the solver has finished on a graph with a cycle of action edges of cost
\* zero between two belief nodes that both got a finite cost above zero
C24_Witness ==
    /\ pc = "extract_init"
    /\ q = {}
    /\ \E u, v \in BeliefNodes :
          /\ u # v
          /\ BNode(u).node_type = "Action" /\ BNode(v).node_type = "Action"
          /\ v \in SeqRange(BNode(u).children) /\ u \in SeqRange(BNode(v).children)
          /\ CostEvaluator(BNode(u).state, BNode(v).state) = 0
          /\ dist[u] > 0 /\ dist[v] > 0

\* C25: on a belief graph produced by build_belief_graph the solver never meets a
\* predecessor of kind Unknown: every belief node with an outgoing edge, hence every
\* parent of a node, is an Action or an Observation node, and only nodes without
\* outgoing edge are Unknown.
C25_NoUnknownPredecessor ==
    /\ pc # "panic_node_type"
    /\ \A c \in BeliefNodes :
          /\ BNode(c).children # << >> => BNode(c).node_type \in {"Action", "Observation"}
          /\ BNode(c).node_type = "Unknown" => BNode(c).children = << >>
          /\ \A n \in 1 .. Len(BNode(c).parents) :
                BNode(BNode(c).parents[n]).node_type \in {"Action", "Observation"}

\* C25's case: the solver has returned on a graph with a node of each kind, having
\* relaxed an Observation node and an Action node
C25_Witness ==
    /\ pc = "extract_init"
    /\ \E c \in BeliefNodes : BNode(c).node_type = "Unknown"
    /\ \E c \in relaxed : BNode(c).node_type = "Observation"
    /\ \E c \in relaxed : BNode(c).node_type = "Action"

\* the goal mask the tracker recorded with final node n
FinalityOf(n) ==
    LET k == CHOOSE k \in 1 .. Len(Recorded) : Recorded[k] = n
    IN  conservative_reachability.finality[k]

\* C26: every belief node that compute_expected_costs_to_goals gives cost 0 as a
\* terminal is a goal state for its belief: its roadmap node is a recorded final node
\* and every world of positive weight in its belief has its bit in that node's goal
\* mask.
C26_TerminalsAreGoalStates ==
    pc = "dijkstra" =>
        \A c \in Terminals :
            /\ RoadmapNodeOf(c) \in SeqRange(Recorded)
            /\ \A w \in Worlds :
                  BNode(c).belief_state[w] > 0 => w \in FinalityOf(RoadmapNodeOf(c))

\* C26's failing case: the goal of world 0 and the goal of world 1 are two points; the
\* node at the goal of world 0 is a terminal of cost 0 under the start belief, which
\* gives world 1 a positive weight
C26_TerminalOutsideItsGoal ==
    /\ pc = "dijkstra"
    /\ \E c \in Terminals :
          /\ dist[c] = 0
          /\ BNode(c).belief_state = StartBelief
          /\ RoadmapNodeOf(c) \in SeqRange(Recorded)
          /\ FinalityOf(RoadmapNodeOf(c)) = {0}

\* the L1 distance between a point of whole coordinates and a point over den, times den
ScaledL1(a, num, den) ==
    LET d[n \in 0 .. Len(a)] == IF n = 0 THEN 0 ELSE d[n - 1] + Abs(num[n] - a[n] * den)
    IN  d[Len(a)]

BitsOf(n) == {b \in 0 .. MaxZones + 1 : (n \div (2 ^ b)) % 2 = 1}

\* v, a u32, is 2 ^ e
IsPowerOfTwo(v, e) ==
    IF e < U32Bits \div 2 THEN v = << 0, 2 ^ e >>
    ELSE IF e < U32Bits THEN v = << 2 ^ (e - U32Bits \div 2), 0 >>
    ELSE FALSE

\* C28: for a map with Z zones, n_worlds = 2^Z; for every world w < n_worlds and zone
\* z < Z, get_zone_status(w, z) = Ok(bit z of w) and zones_to_worlds[z][w] is that bit
\* (world 0 has every zone closed); get_zone_status is Err for w >= 2^Z or z >= Z.
C28_WorldsAreZoneBitPatterns ==
    pc \in {"map_ready", "map_called", "panic_overflow"} =>
        /\ pc # "panic_overflow"
        /\ IsPowerOfTwo(fns.n_worlds, fns.n_zones)
        /\ Len(fns.zones_to_worlds) = fns.n_zones
        /\ \A z \in 0 .. MaxZones - 1 : \A w \in 0 .. 2 ^ MaxZones - 1 :
              (z < fns.n_zones /\ ShiftRight(w, fns.n_zones) = 0) =>
                  (w \in fns.zones_to_worlds[z + 1] <=> z \in BitsOf(w))
        /\ pc = "map_called" =>
              LET w == call.args[1]
                  z == call.args[2]
              IN  IF z < fns.n_zones /\ ShiftRight(w, fns.n_zones) = 0
                  THEN call.ret = Some(Ok(z \in BitsOf(w)))
                  ELSE call.ret = Some(Err)

\* C28's failing case: the zone image's largest id is 31, so the map has 32 zones; in
\* a build without overflow checks n_worlds is 0 and get_zone_status(1, 0) is Err
C28_ThirtyTwoZones ==
    /\ pc = "map_called"
    /\ fns.n_zones = U32Bits
    /\ fns.n_worlds = U32_of(0)
    /\ call.args = << 1, 0 >>
    /\ call.ret = Some(Err)

====
